---- MODULE Spec2Model ----
(***************************************************************************)
(* Query-resolution pipeline and cache-first resolution of the mathprereq  *)
(* backend (queryService in application/services/query_service.go, the     *)
(* Query entity and the Mongo query repository).                           *)
(*                                                                         *)
(* Strings whose content the code inspects (concept names, question texts) *)
(* are sequences of one-character strings, so that ToLower, TrimSpace,     *)
(* Title and the regular-expression matchers are computed, not assumed.    *)
(* An action is one external call returning, together with the code that   *)
(* runs up to the next external call (or up to the return of the handler). *)
(* Time is counted in days.                                                *)
(***************************************************************************)
EXTENDS Integers, Sequences, FiniteSets, TLC

\* ---------------------------------------------------------------- bounds
MaxReq == 1
MaxTime == 40
MaxClock == 49
MaxLimit == 4

\* ------------------------------------------------------ program constants
MaxCacheAgeDays == 30
maxConceptsScrape == 5
maxConceptsGather == 3
batchSize == 3
recentWindowHours == 24
minQuality == 4
maxPerConcept == 6
maxVideos == 3
maxArticlesTutorials == 3
youTubeLimit == 5
defaultMaxConcurrentRequests == 10
youTubeSearches == 2
generalSites == 2

\* ------------------------------------------------------------- characters
UpperLetters == {"A", "B", "C", "D"}
LowerLetters == {"a", "b", "c", "d", "e", "f", "g", "h", "x", "p"}

LowerCh(ch) ==
    CASE ch = "A" -> "a" [] ch = "B" -> "b" [] ch = "C" -> "c"
      [] ch = "D" -> "d" [] OTHER -> ch

UpperCh(ch) ==
    CASE ch = "a" -> "A" [] ch = "b" -> "B" [] ch = "c" -> "C"
      [] ch = "d" -> "D" [] OTHER -> ch

IsSpaceCh(ch) == ch \in {" ", "\n", "\t"}

IsWordCh(ch) == ch \in UpperLetters \cup LowerLetters \cup {"_"}

\* strings.ToLower
ToLower(s) == [i \in 1..Len(s) |-> LowerCh(s[i])]

\* strings.TrimSpace
TrimSpace(s) ==
    LET idx == {i \in 1..Len(s) : ~IsSpaceCh(s[i])}
    IN  IF idx = {} THEN <<>>
        ELSE LET lo == CHOOSE i \in idx : \A j \in idx : i <= j
                 hi == CHOOSE i \in idx : \A j \in idx : i >= j
             IN  SubSeq(s, lo, hi)

\* strings.Title: upper-cases the first letter of every word
Title(s) ==
    [i \in 1..Len(s) |->
        IF i = 1 \/ ~IsWordCh(s[i - 1]) THEN UpperCh(s[i]) ELSE s[i]]

\* ---------------------------------------------------------------- inputs
sab == <<"a", "b">>
spab == <<" ", "a", "b">>
scd == <<"c", "d">>

\* question texts submitted to ProcessQuery
Questions == {<<"a", "b", " ", "x">>}

\* concept names submitted to SmartConceptQuery
SmartNames == {sab, spab}

\* lists the Generative Text Service may return from IdentifyConcepts
IdentifyLists ==
    {<<>>, <<sab>>, <<sab, scd, <<"e">>, <<"f">>, <<"g">>, <<"h">>>>}

\* explanations the Generative Text Service may return (it may return an
\* empty text without an error)
Explanations == {<<>>, <<"E", "3">>}

\* chunk contents the Semantic Index may return
ChunkLists == {<<"k1">>}

\* days by which the clock may advance in one step
TickSteps == {20}

Req == 1..MaxReq

\* the hour at which the engine is observed first, and the hours by which
\* its clock may advance in one step
StartHour == recentWindowHours
TickHours == recentWindowHours + 1

VARIABLES
    now,              \* the clock (time.Now), in days
    nextId,           \* source of fresh Query identifiers (uuid.New)
    started,          \* the number of requests received so far
    req,              \* per handler: the request it serves or served last
    cancelled,        \* the request contexts that are cancelled
    jobs,             \* the goroutines started with `go`, in dispatch order
    store,            \* the documents of the "queries" collection
    resourceScraper,  \* TRUE iff queryService.resourceScraper is not nil
    clock,            \* the clock of the discovery engine, in hours
    resources,        \* the documents of the resource collection
    uniqueIndex,      \* TRUE iff the unique index on url exists
    fan,              \* one call of scrapeResourcesForConcept, by adapter
    writers,          \* concurrent calls of scrapeResourcesForConcept
    batch,            \* one call of ScrapeResourcesForConcepts
    reader,           \* one call of GetResourcesForConcepts
    resolver,         \* one call of Client.FindPrerequisitePath
    limiter,          \* the token bucket of a scraper and its adapter calls
    callers           \* concurrent calls of SmartConceptQuery

queryVars ==
    <<now, nextId, started, req, cancelled, jobs, store, resourceScraper>>

engineVars ==
    <<clock, resources, uniqueIndex, fan, writers, batch, reader, resolver,
      limiter, callers>>

vars == <<queryVars, engineVars>>

\* ------------------------------------------------------------ Query entity
\* the zero value of entities.Query
NoQuery ==
    [id |-> 0, text |-> <<>>, identified |-> <<>>, path |-> <<>>,
     explanation |-> <<>>, context |-> <<>>, timestamp |-> 0,
     success |-> FALSE, errorMessage |-> <<>>, steps |-> <<>>]

\* entities.NewQuery
NewQuery(id, text, ts) ==
    [NoQuery EXCEPT !.id = id, !.text = text, !.timestamp = ts]

\* an AddProcessingStep that marks every step as successful
AddProcessingStepAlwaysSuccess(q, name, err) ==
    [q EXCEPT !.steps =
        Append(@, [name |-> name, success |-> TRUE, error |-> err])]

\* Query.AddProcessingStep; err is the error text, <<>> for a nil error
AddProcessingStep(q, name, err) ==
    [q EXCEPT !.steps =
        Append(@, [name |-> name, success |-> (err = <<>>), error |-> err])]

\* a MarkCompleted that records every run as successful
MarkCompletedAlwaysSuccess(q, err) ==
    [q EXCEPT !.success = TRUE]

\* Query.MarkCompleted, called as MarkCompleted(err == nil, err)
MarkCompleted(q, err) ==
    [q EXCEPT !.success = (err = <<>>),
              !.errorMessage = IF err # <<>> THEN err ELSE @]

\* an error passed on as it came, without the message of the caller
WrapDropsMessage(msg, err) == err

\* fmt.Errorf("<msg>: %w", err): an error text is the chain of its messages
Wrap(msg, err) == <<msg>> \o err

\* the zero value of services.QueryResult / a nil result
NoResult ==
    [present |-> FALSE, qid |-> 0, concepts |-> <<>>, path |-> <<>>,
     explanation |-> <<>>, context |-> <<>>]

\* ------------------------------------------------------------ Concept Graph
\* a two-node graph: "cd" is a prerequisite for "ab"
GraphNodes ==
    {[id |-> <<"n", "1">>, name |-> scd, rank |-> 2],
     [id |-> <<"n", "2">>, name |-> sab, rank |-> 1]}

GraphEdges == {<<<<"n", "1">>, <<"n", "2">>>>}

Contains(s, t) ==
    \E i \in 1..(Len(s) - Len(t) + 1) : SubSeq(s, i, i + Len(t) - 1) = t

\* Client.FindConceptID: the ids the LIMIT 1 query may return
FindConceptID(name) ==
    {n.id : n \in {m \in GraphNodes :
        \/ Contains(ToLower(m.name), ToLower(name))
        \/ ToLower(m.id) = ToLower(name)}}

RECURSIVE SortByRank(_)
SortByRank(S) ==
    IF S = {} THEN <<>>
    ELSE LET m == CHOOSE n \in S : \A o \in S : n.rank <= o.rank
         IN  <<m>> \o SortByRank(S \ {m})

\* Client.FindPrerequisitePath for one choice of the LIMIT 1 results:
\* prerequisites before targets, each group by name
PathForTargets(targetIDs) ==
    LET targets == {n \in GraphNodes : n.id \in targetIDs}
        prereqs == {n \in GraphNodes :
                      /\ n.id \notin targetIDs
                      /\ \E t \in targetIDs : <<n.id, t>> \in GraphEdges}
        AsConcept(n, type) == [id |-> n.id, name |-> n.name, type |-> type]
        P == SortByRank(prereqs)
        T == SortByRank(targets)
    IN  [i \in 1..Len(P) |-> AsConcept(P[i], "prerequisite")]
        \o [i \in 1..Len(T) |-> AsConcept(T[i], "target")]

FindPrerequisitePath(names) ==
    PathForTargets(UNION {FindConceptID(names[i]) : i \in 1..Len(names)})

\* ------------------------------------------------------- the query store
IsWordAt(text, k) == k \in 1..Len(text) /\ IsWordCh(text[k])

\* the regular expression "(?i)\bTERM\b" finds a match in text
WordMatch(text, term) ==
    \E i \in 1..(Len(text) - Len(term) + 1) :
        /\ ToLower(SubSeq(text, i, i + Len(term) - 1)) = ToLower(term)
        /\ IsWordAt(text, i - 1) # IsWordAt(text, i)
        /\ IsWordAt(text, i + Len(term) - 1) # IsWordAt(text, i + Len(term))

\* the $or of the filter of FindByConceptName
MatchesTerm(doc, term) ==
    \/ \E i \in 1..Len(doc.identified) : doc.identified[i] = term
    \/ \E i \in 1..Len(doc.identified) :
           ToLower(doc.identified[i]) = ToLower(term)
    \/ WordMatch(doc.text, term)

\* the whole filter of FindByConceptName
FilterByConceptName(doc, term) ==
    /\ MatchesTerm(doc, term)
    /\ doc.success
    /\ doc.explanation # <<>>

\* a FindOne that sorts by timestamp in ascending order
FindByConceptNameOldest(term) ==
    LET m == {d \in store : FilterByConceptName(d, term)}
    IN  {d \in m : \A e \in m : e.timestamp >= d.timestamp}

\* the documents FindOne may return under the sort {timestamp: -1}
FindByConceptName(term) ==
    LET m == {d \in store : FilterByConceptName(d, term)}
    IN  {d \in m : \A e \in m : e.timestamp <= d.timestamp}

\* a conversion that leaves out the retrieved context
bsonToQueryNoContext(doc) ==
    [NoQuery EXCEPT !.id = doc.id, !.text = doc.text,
                    !.identified = doc.identified, !.path = doc.path,
                    !.explanation = doc.explanation,
                    !.timestamp = doc.timestamp, !.success = doc.success]

\* mongoQueryRepository.bsonToQuery
bsonToQuery(doc) ==
    [NoQuery EXCEPT !.id = doc.id, !.text = doc.text,
                    !.identified = doc.identified, !.path = doc.path,
                    !.explanation = doc.explanation,
                    !.context = doc.context,
                    !.timestamp = doc.timestamp, !.success = doc.success]

\* the search terms of FindCachedConceptQuery, in the order tried
SearchStrategies(conceptName) ==
    LET normalizedConcept == TrimSpace(ToLower(conceptName))
    IN  <<conceptName, normalizedConcept, Title(normalizedConcept)>>

\* a prompt that does not name the concept
buildConceptQueryPromptWithoutName(conceptName) ==
    <<"e", "x", "p", " ", "\"", "\"", ".", " ", "c">>

\* buildConceptQueryPrompt: the fixed template around the quoted name,
\* shortened to its first and last words
buildConceptQueryPrompt(conceptName) ==
    <<"e", "x", "p", " ", "\"">> \o conceptName \o <<"\"", ".", " ", "c">>

\* ------------------------------------------------------- background jobs
Background == 0

\* a job context derived from the context of the request
requestCtxParent(ctx) == ctx

\* saveQueryAsync: context.WithTimeout(context.Background(), 10*time.Second)
saveCtxParent(ctx) == Background

\* scrapeResourcesAsync: context.WithTimeout(context.Background(), 2*time.Minute)
scraperCtxParent(ctx) == Background

\* gatherResourcesInBackground: context.WithTimeout(context.Background(), 2*time.Minute)
bgCtxParent(ctx) == Background

\* a context derived from a request's context is cancelled with it; the
\* request with number n has context n
CtxCancelled(parent) == parent \in cancelled

NoJob ==
    [kind |-> "none", owner |-> 0, qid |-> 0, status |-> "pending",
     outcome |-> "none", q |-> NoQuery, conceptName |-> <<>>,
     conceptNames |-> <<>>, concepts |-> <<>>, handed |-> FALSE,
     reqCancelledAtRun |-> FALSE]

\* go func() { ... s.queryRepo.Save(saveCtx, query) ... }()
SaveJob(ctx, q) ==
    [NoJob EXCEPT !.kind = "save", !.owner = ctx, !.qid = q.id, !.q = q]

\* go s.scrapeResourcesAsync(ctx, conceptNames, query.ID)
ScrapeJob(ctx, conceptNames, qid) ==
    [NoJob EXCEPT !.kind = "scrape", !.owner = ctx, !.qid = qid,
                  !.conceptNames = conceptNames]

\* go s.gatherResourcesInBackground(ctx, conceptName, identifiedConcepts)
GatherJob(ctx, conceptName, identifiedConcepts) ==
    [NoJob EXCEPT !.kind = "gather", !.owner = ctx,
                  !.conceptName = conceptName,
                  !.conceptNames = identifiedConcepts]

\* conceptNames[:max] when len(conceptNames) > max
Truncate(s, max) == IF Len(s) > max THEN SubSeq(s, 1, max) ELSE s

RECURSIVE RemoveDup(_, _)
RemoveDup(input, keys) ==
    IF input = <<>> THEN <<>>
    ELSE LET item == Head(input)
             normalized == TrimSpace(ToLower(item))
         IN  IF normalized \notin keys /\ normalized # <<>>
             THEN <<item>> \o RemoveDup(Tail(input), keys \cup {normalized})
             ELSE RemoveDup(Tail(input), keys)

\* a removeDuplicateStrings that keeps every entry
KeepDuplicateStrings(input) == input

\* queryService.removeDuplicateStrings
removeDuplicateStrings(input) == RemoveDup(input, {})

\* -------------------------------------------------------------- requests
NoLLMReq == [sent |-> FALSE, query |-> <<>>, path |-> <<>>, chunks |-> <<>>]

IdleReq ==
    [kind |-> "none", pc |-> "idle", arg |-> <<>>, ctx |-> 0,
     q |-> NoQuery, calls |-> <<>>, term |-> 0, lookups |-> <<>>,
     cachedId |-> 0, cacheAge |-> 0, result |-> NoResult,
     err |-> <<>>, fromCache |-> FALSE, llmReq |-> NoLLMReq]

\* the error an external call made with request r's context returns
Cancelled(r) == req[r].ctx \in cancelled

\* the error text of a failed external call, whatever its cause (service
\* unavailable, deadline exceeded, context cancelled)
CallError(r) == <<"call failed">>

\* requests arrive one after the other, MaxReq of them, each after the
\* previous request returned and the goroutines it started ended; the
\* first handler serves them
FreeSlot(r) ==
    /\ started < MaxReq
    /\ \A o \in Req : req[o].pc \in {"idle", "returned"}
    /\ \A j \in 1..Len(jobs) : jobs[j].status = "done"
    /\ r = 1

\* what a new request leaves of the state: the goroutines that ended and
\* the context of the request that returned are gone
Arrival(r) ==
    /\ started' = started + 1
    /\ jobs' = <<>>
    /\ cancelled' = {}

\* the start of ProcessQuery up to the call of IdentifyConcepts
EnterProcessQuery(rq, question) ==
    [rq EXCEPT !.q = NewQuery(nextId, question, now),
               !.pc = "identify",
               !.calls = Append(@, "IdentifyConcepts")]

\* a ProcessQuery that persists only the runs that succeeded
ProcessQueryReturnSaveOnSuccess(r, rq, q, res, err, js) ==
    LET done == MarkCompleted(q, err)
        perr == IF err = <<>> THEN <<>>
                ELSE Wrap("failed to process query", err)
    IN  /\ req' = [req EXCEPT ![r] =
                     [rq EXCEPT !.pc = "returned", !.q = done,
                                !.result = IF err = <<>> THEN res
                                           ELSE NoResult,
                                !.err = perr]]
        /\ jobs' = IF err = <<>> THEN Append(js, SaveJob(rq.ctx, done))
                   ELSE js

\* the end of ProcessQuery (and of SmartConceptQuery around it), after
\* processQueryPipeline returned (res, err): MarkCompleted, saveQueryAsync
\* and the return to the caller
ProcessQueryReturn(r, rq, q, res, err, js) ==
    LET done == MarkCompleted(q, err)
        perr == IF err = <<>> THEN <<>>
                ELSE Wrap("failed to process query", err)
        serr == IF perr # <<>> /\ rq.kind = "smart"
                THEN Wrap("failed to process fresh concept query", perr)
                ELSE perr
    IN  /\ req' = [req EXCEPT ![r] =
                     [rq EXCEPT !.pc = "returned", !.q = done,
                                !.result = IF err = <<>> THEN res
                                           ELSE NoResult,
                                !.err = serr]]
        /\ jobs' = Append(js, SaveJob(rq.ctx, done))

StartProcessQuery(r, question) ==
    /\ FreeSlot(r)
    /\ Arrival(r)
    /\ req' = [req EXCEPT ![r] =
                 EnterProcessQuery([IdleReq EXCEPT !.kind = "process",
                                                   !.ctx = started + 1,
                                                   !.arg = question],
                                   question)]
    /\ nextId' = nextId + 1
    /\ UNCHANGED <<now, store, resourceScraper, engineVars>>

\* Step 1: IdentifyConcepts returns
IdentifyConceptsReturns(r) ==
    /\ req[r].pc = "identify"
    /\ LET rq == req[r] IN
       \/ /\ ~Cancelled(r)
          /\ \E conceptNames \in IdentifyLists :
               req' = [req EXCEPT ![r] =
                 [rq EXCEPT
                    !.q = [AddProcessingStep(rq.q, "identify_concepts", <<>>)
                             EXCEPT !.identified = conceptNames],
                    !.result = [NoResult EXCEPT !.present = TRUE,
                                                !.qid = rq.q.id,
                                                !.concepts = conceptNames],
                    !.pc = "path",
                    !.calls = Append(@, "FindPrerequisitePath")]]
          /\ UNCHANGED jobs
       \/ ProcessQueryReturn(r, rq,
             AddProcessingStep(rq.q, "identify_concepts", CallError(r)),
             NoResult,
             Wrap("concept identification failed", CallError(r)), jobs)
    /\ UNCHANGED <<now, nextId, started, cancelled, store, resourceScraper, engineVars>>

\* the outcomes of conceptRepo.FindPrerequisitePath: the concept lookups
\* fail (and are skipped) all together or not at all; <<"ok", path>> or
\* <<"err", text>>
PathOutcomes(r, conceptNames) ==
    LET all == UNION {FindConceptID(conceptNames[i]) :
                        i \in 1..Len(conceptNames)}
    IN  {<<"ok", <<>>>>}
        \cup (IF Cancelled(r) THEN {}
              ELSE {<<"ok", PathForTargets(all)>>})
        \cup (IF all = {} THEN {}
              ELSE {<<"err", Wrap("failed to find prerequisite path",
                                  CallError(r))>>})

\* the dispatch of Step 3
ScrapeDispatch(r, conceptNames, qid, js) ==
    IF resourceScraper /\ Len(conceptNames) > 0
    THEN Append(js, ScrapeJob(req[r].ctx, conceptNames, qid))
    ELSE js

\* Step 2: FindPrerequisitePath returns; Step 3 dispatches the scraping
FindPrerequisitePathReturns(r) ==
    /\ req[r].pc = "path"
    /\ LET rq == req[r] IN
       \E out \in PathOutcomes(r, rq.q.identified) :
         IF out[1] = "ok"
         THEN /\ req' = [req EXCEPT ![r] =
                 [rq EXCEPT
                    !.q = [AddProcessingStep(rq.q, "find_prerequisites", <<>>)
                             EXCEPT !.path = out[2]],
                    !.result = [@ EXCEPT !.path = out[2]],
                    !.pc = "search",
                    !.calls = Append(@, "Search")]]
              /\ jobs' = ScrapeDispatch(r, rq.q.identified, rq.q.id, jobs)
         ELSE ProcessQueryReturn(r, rq,
                AddProcessingStep(rq.q, "find_prerequisites", out[2]),
                NoResult,
                Wrap("prerequisite path finding failed", out[2]), jobs)
    /\ UNCHANGED <<now, nextId, started, cancelled, store, resourceScraper, engineVars>>

\* the chunk list used after vectorRepo.Search returned err (<<>> for nil)
ContextAfterSearch(chunks, err) == IF err # <<>> THEN <<>> ELSE chunks

\* the retrieved context is recorded in the result and GenerateExplanation
\* is called with the query text, the path and the context
CallGenerateExplanation(r, rq, context, err) ==
    req' = [req EXCEPT ![r] =
      [rq EXCEPT
         !.q = AddProcessingStep(rq.q, "vector_search", err),
         !.result = [@ EXCEPT !.context = context],
         !.llmReq = [sent |-> TRUE, query |-> rq.q.text,
                     path |-> rq.q.path, chunks |-> context],
         !.pc = "explain",
         !.calls = Append(@, "GenerateExplanation")]]

\* a pipeline that treats a failed vector search like the other stages
AfterSearchFatal(r, rq, chunks, err) ==
    IF err # <<>>
    THEN req' = [req EXCEPT ![r] =
           [rq EXCEPT
              !.q = MarkCompleted(
                      AddProcessingStep(rq.q, "vector_search", err), err),
              !.result = NoResult,
              !.err = Wrap("failed to process query", err),
              !.pc = "returned"]]
    ELSE CallGenerateExplanation(r, rq, chunks, err)

\* the pipeline after vectorRepo.Search returned (chunks, err)
AfterSearch(r, rq, chunks, err) ==
    CallGenerateExplanation(r, rq, ContextAfterSearch(chunks, err), err)

\* Step 4 (vector search): Search returns; GenerateExplanation is called
SearchReturns(r) ==
    /\ req[r].pc = "search"
    /\ LET rq == req[r]
       IN  \/ /\ ~Cancelled(r)
              /\ \E chunks \in ChunkLists : AfterSearch(r, rq, chunks, <<>>)
           \/ AfterSearch(r, rq, <<>>,
                          Wrap("vector search failed", CallError(r)))
    /\ UNCHANGED <<now, nextId, started, cancelled, jobs, store, resourceScraper, engineVars>>

\* Step 4 (explanation): GenerateExplanation returns; ProcessQuery returns
GenerateExplanationReturns(r) ==
    /\ req[r].pc = "explain"
    /\ LET rq == req[r] IN
       \/ /\ ~Cancelled(r)
          /\ \E explanation \in Explanations :
               ProcessQueryReturn(r, rq,
                 [AddProcessingStep(rq.q, "generate_explanation", <<>>)
                    EXCEPT !.explanation = explanation,
                           !.context = rq.result.context],
                 [rq.result EXCEPT !.explanation = explanation],
                 <<>>, jobs)
       \/ ProcessQueryReturn(r, rq,
             AddProcessingStep(rq.q, "generate_explanation", CallError(r)),
             NoResult,
             Wrap("explanation generation failed", CallError(r)), jobs)
    /\ UNCHANGED <<now, nextId, started, cancelled, store, resourceScraper, engineVars>>

\* ------------------------------------------------------ SmartConceptQuery
\* a freshness test that admits a record aged exactly maxCacheAge
IsFreshInclusive(cacheAge) == cacheAge <= MaxCacheAgeDays

\* cacheAge < maxCacheAge
IsFresh(cacheAge) == cacheAge < MaxCacheAgeDays

\* the services.QueryResult built from a cached Query
CachedResult(cachedQuery) ==
    [present |-> TRUE, qid |-> cachedQuery.id,
     concepts |-> cachedQuery.identified, path |-> cachedQuery.path,
     explanation |-> cachedQuery.explanation,
     context |-> cachedQuery.context]

\* the start of SmartConceptQuery up to the first FindByConceptName
StartSmartConceptQuery(r, conceptName) ==
    /\ FreeSlot(r)
    /\ Arrival(r)
    /\ req' = [req EXCEPT ![r] =
                 [IdleReq EXCEPT !.kind = "smart", !.arg = conceptName,
                                 !.ctx = started + 1,
                                 !.pc = "lookup", !.term = 1,
                                 !.calls = <<"FindByConceptName">>]]
    /\ UNCHANGED <<now, nextId, store, resourceScraper, engineVars>>

\* a fresh run that submits the concept name itself as the question
FreshRunWithBareName(r, rq) ==
    /\ req' = [req EXCEPT ![r] =
                 EnterProcessQuery([rq EXCEPT !.term = 0, !.lookups = <<>>],
                                   rq.arg)]
    /\ nextId' = nextId + 1
    /\ UNCHANGED jobs

\* Step 3 of SmartConceptQuery: the fresh run through ProcessQuery;
\* FindCachedConceptQuery has returned, its locals (the index of the search
\* term, the outcomes of its lookups) are gone
FreshRun(r, rq) ==
    /\ req' = [req EXCEPT ![r] =
                 EnterProcessQuery([rq EXCEPT !.term = 0, !.lookups = <<>>],
                                   buildConceptQueryPrompt(rq.arg))]
    /\ nextId' = nextId + 1
    /\ UNCHANGED jobs

\* Step 2 of SmartConceptQuery, for the Query the lookup returned
CacheDecision(r, rq, cachedQuery) ==
    LET cacheAge == now - cachedQuery.timestamp
        seen == [rq EXCEPT !.cachedId = cachedQuery.id,
                           !.cacheAge = cacheAge,
                           !.lookups = Append(@, "hit")]
    IN  IF IsFresh(cacheAge)
        THEN /\ req' = [req EXCEPT ![r] =
                          [seen EXCEPT !.pc = "returned", !.fromCache = TRUE,
                                       !.q = cachedQuery,
                                       !.result = CachedResult(cachedQuery)]]
             /\ jobs' = Append(jobs,
                          GatherJob(rq.ctx, rq.arg, cachedQuery.identified))
             /\ UNCHANGED nextId
        ELSE FreshRun(r, seen)

\* a FindCachedConceptQuery that gives up at the first lookup that fails
NextStrategyStoppingAtError(r, rq, outcome) ==
    LET logged == [rq EXCEPT !.lookups = Append(@, outcome)] IN
    IF outcome # "err" /\ rq.term < Len(SearchStrategies(rq.arg))
    THEN /\ req' = [req EXCEPT ![r] =
                      [logged EXCEPT !.term = @ + 1,
                                     !.calls = Append(@, "FindByConceptName")]]
         /\ UNCHANGED <<nextId, jobs>>
    ELSE FreshRun(r, logged)

\* FindCachedConceptQuery after a search term gave an error ("err") or no
\* document ("none"): the next term is tried, after the last one the cache
\* is missed
NextStrategy(r, rq, outcome) ==
    LET logged == [rq EXCEPT !.lookups = Append(@, outcome)] IN
    IF rq.term < Len(SearchStrategies(rq.arg))
    THEN /\ req' = [req EXCEPT ![r] =
                      [logged EXCEPT !.term = @ + 1,
                                     !.calls = Append(@, "FindByConceptName")]]
         /\ UNCHANGED <<nextId, jobs>>
    ELSE FreshRun(r, logged)

\* FindCachedConceptQuery: one FindByConceptName returns
FindByConceptNameReturns(r) ==
    /\ req[r].pc = "lookup"
    /\ LET rq == req[r]
           found == FindByConceptName(SearchStrategies(rq.arg)[rq.term])
       IN  \/ /\ ~Cancelled(r)
              /\ \E doc \in found : CacheDecision(r, rq, bsonToQuery(doc))
           \/ /\ ~Cancelled(r)
              /\ found = {}
              /\ NextStrategy(r, rq, "none")
           \/ NextStrategy(r, rq, "err")
    /\ UNCHANGED <<now, started, cancelled, store, resourceScraper, engineVars>>

\* ------------------------------------------------------------- job bodies
\* the goroutine of saveQueryAsync: queryRepo.Save under the 10 s context;
\* "failed" stands for any error of InsertOne, the deadline included
RunSaveJob(j) ==
    /\ jobs[j].kind = "save"
    /\ jobs[j].status = "pending"
    /\ LET job == jobs[j]
           End(outcome) ==
             jobs' = [jobs EXCEPT ![j] =
                        [job EXCEPT !.status = "done", !.outcome = outcome,
                                    !.reqCancelledAtRun =
                                        job.owner \in cancelled]]
       IN  IF CtxCancelled(saveCtxParent(job.owner))
           THEN End("canceled") /\ UNCHANGED store
           ELSE \/ /\ \A d \in store : d.id # job.q.id
                   /\ End("ok")
                   /\ store' = store \cup {job.q}
                \/ End("failed") /\ UNCHANGED store
    /\ UNCHANGED <<now, nextId, started, req, cancelled, resourceScraper, engineVars>>

\* a scraping job without the limit on the number of concepts
ScrapeListUnlimited(conceptNames) == conceptNames

\* the list scrapeResourcesAsync hands to ScrapeResourcesForConcepts
ScrapeList(conceptNames) == Truncate(conceptNames, maxConceptsScrape)

\* a refresh that covers the concepts of the cached record only
GatherListIdentifiedOnly(conceptName, identifiedConcepts) ==
    Truncate(removeDuplicateStrings(identifiedConcepts), maxConceptsGather)

\* the list gatherResourcesInBackground hands to ScrapeResourcesForConcepts
GatherList(conceptName, identifiedConcepts) ==
    Truncate(removeDuplicateStrings(<<conceptName>> \o identifiedConcepts),
             maxConceptsGather)

\* the outcomes of a discovery run under a context with the given parent:
\* it runs to its end, or its own deadline passes first
EngineOutcomes(parent) ==
    IF CtxCancelled(parent) THEN {"canceled"} ELSE {"done", "timeout"}

\* the body of scrapeResourcesAsync
RunScrapeJob(j) ==
    /\ jobs[j].kind = "scrape"
    /\ jobs[j].status = "pending"
    /\ LET job == jobs[j] IN
       \E outcome \in EngineOutcomes(scraperCtxParent(job.owner)) :
         jobs' = [jobs EXCEPT ![j] =
                    [job EXCEPT !.status = "done", !.outcome = outcome,
                                !.concepts = ScrapeList(job.conceptNames),
                                !.handed = TRUE,
                                !.reqCancelledAtRun =
                                    job.owner \in cancelled]]
    /\ UNCHANGED <<now, nextId, started, req, cancelled, store, resourceScraper, engineVars>>

\* the body of gatherResourcesInBackground
RunGatherJob(j) ==
    /\ jobs[j].kind = "gather"
    /\ jobs[j].status = "pending"
    /\ LET job == jobs[j]
           list == GatherList(job.conceptName, job.conceptNames)
       IN  \E outcome \in IF resourceScraper
                          THEN EngineOutcomes(bgCtxParent(job.owner))
                          ELSE {"done"} :
             jobs' = [jobs EXCEPT ![j] =
                        [job EXCEPT !.status = "done", !.outcome = outcome,
                                    !.concepts = list,
                                    !.handed = resourceScraper,
                                    !.reqCancelledAtRun =
                                        job.owner \in cancelled]]
    /\ UNCHANGED <<now, nextId, started, req, cancelled, store, resourceScraper, engineVars>>

\* ------------------------------------------------------------ environment
\* the client of request r disconnects, or its handler has returned; once
\* the request returned and its goroutines ended nothing observes the context
CancelRequest(r) ==
    /\ \/ req[r].pc \notin {"idle", "returned"}
       \/ /\ req[r].pc = "returned"
          /\ \E j \in 1..Len(jobs) : jobs[j].status = "pending"
    /\ ~Cancelled(r)
    /\ cancelled' = cancelled \cup {req[r].ctx}
    /\ UNCHANGED <<now, nextId, started, req, jobs, store, resourceScraper, engineVars>>

\* days pass; no request and no job lasts that long (every job has a
\* deadline of at most two minutes)
Tick ==
    /\ started < MaxReq
    /\ \A r \in Req : req[r].pc \in {"idle", "returned"}
    /\ \A j \in 1..Len(jobs) : jobs[j].status = "done"
    /\ \E d \in TickSteps :
         /\ now + d <= MaxTime
         /\ now' = now + d
    /\ UNCHANGED <<nextId, started, req, cancelled, jobs, store, resourceScraper, engineVars>>

\* ----------------------------------------------- resource discovery engine
\* (EducationalWebScraper, unnamed/part_002).  Quality scores are counted in
\* tenths, the engine's clock in hours.

\* one EducationalResource as an adapter builds it
Resource(url, conceptID, resourceType, score, at) ==
    [url |-> url, concept_id |-> conceptID, resource_type |-> resourceType,
     quality_score |-> score, scraped_at |-> at]

\* a document of the collection: a resource under its _id
Doc(id, res) ==
    [id |-> id, url |-> res.url, concept_id |-> res.concept_id,
     resource_type |-> res.resource_type,
     quality_score |-> res.quality_score, scraped_at |-> res.scraped_at]

\* the fields that `$set: resource` writes
Fields(d) ==
    Resource(d.url, d.concept_id, d.resource_type, d.quality_score,
             d.scraped_at)

Digits == {"0", "1", "2", "3", "4", "5", "6", "7", "8", "9"}

\* strings.ReplaceAll(s, old, new) for one-character old and new
ReplaceAll(s, old, new) ==
    [i \in 1..Len(s) |-> IF s[i] = old THEN new ELSE s[i]]

\* EducationalWebScraper.generateConceptID: lower case, blanks and hyphens
\* to underscores, every character outside [a-zA-Z0-9_] removed
generateConceptID(conceptName) ==
    LET id == ReplaceAll(ReplaceAll(ToLower(conceptName), " ", "_"),
                         "-", "_")
    IN  SelectSeq(id, LAMBDA ch :
            ch \in UpperLetters \cup LowerLetters \cup Digits \cup {"_"})

RECURSIVE Dedup(_, _)
Dedup(list, seen) ==
    IF list = <<>> THEN <<>>
    ELSE IF Head(list).url \in seen THEN Dedup(Tail(list), seen)
    ELSE <<Head(list)>> \o Dedup(Tail(list), seen \cup {Head(list).url})

\* deduplicateResources: the first resource of every URL, in order
deduplicateResources(list) == Dedup(list, {})

\* the inner loop of the bubble sort: positions j..n are compared with
\* their right neighbour and swapped when the left score is smaller
RECURSIVE BubbleInner(_, _, _)
BubbleInner(s, j, n) ==
    IF j > n THEN s
    ELSE BubbleInner(
           IF s[j].quality_score < s[j + 1].quality_score
           THEN [s EXCEPT ![j] = s[j + 1], ![j + 1] = s[j]]
           ELSE s,
           j + 1, n)

RECURSIVE BubbleOuter(_, _)
BubbleOuter(s, i) ==
    IF i >= Len(s) - 1 THEN s
    ELSE BubbleOuter(BubbleInner(s, 1, Len(s) - i - 1), i + 1)

\* "Simple bubble sort by quality score (descending)"
SortByQuality(s) == BubbleOuter(s, 0)

\* counters that stay at zero
CountedNothing(filtered, conceptID, types) == 0

\* conceptCounts[conceptID] summed over the resource types in types; the
\* counters are incremented exactly when a resource is appended to filtered
Counted(filtered, conceptID, types) ==
    Cardinality({i \in 1..Len(filtered) :
                    /\ filtered[i].concept_id = conceptID
                    /\ filtered[i].resource_type \in types})

AllTypes == {"video", "article", "tutorial", "reference"}

\* the same loop body without the minimum quality threshold
KeptByFilterAnyQuality(filtered, resource) ==
    /\ ~(Counted(filtered, resource.concept_id, AllTypes) >= maxPerConcept)
    /\ ~(/\ resource.resource_type = "video"
         /\ Counted(filtered, resource.concept_id, {"video"}) >= maxVideos)
    /\ ~(/\ resource.resource_type \in {"article", "tutorial"}
         /\ Counted(filtered, resource.concept_id, {"article", "tutorial"})
              >= maxArticlesTutorials)

\* the body of the filter loop for one resource: TRUE iff it is appended
KeptByFilter(filtered, resource) ==
    /\ ~(resource.quality_score < minQuality)
    /\ ~(Counted(filtered, resource.concept_id, AllTypes) >= maxPerConcept)
    /\ ~(/\ resource.resource_type = "video"
         /\ Counted(filtered, resource.concept_id, {"video"}) >= maxVideos)
    /\ ~(/\ resource.resource_type \in {"article", "tutorial"}
         /\ Counted(filtered, resource.concept_id, {"article", "tutorial"})
              >= maxArticlesTutorials)

RECURSIVE FilterLoop(_, _)
FilterLoop(sorted, filtered) ==
    IF sorted = <<>> THEN filtered
    ELSE FilterLoop(Tail(sorted),
                    IF KeptByFilter(filtered, Head(sorted))
                    THEN Append(filtered, Head(sorted))
                    ELSE filtered)

\* filterQualityResources
filterQualityResources(list) == FilterLoop(SortByQuality(list), <<>>)

RECURSIVE Concat(_)
Concat(lists) ==
    IF lists = <<>> THEN <<>> ELSE Head(lists) \o Concat(Tail(lists))

\* what the four source adapters are called
Adapters == {"youtube", "khan", "mathworld", "general"}

\* one hit as found on a page: its URL and the score its adapter gives it
Hit(url, score) == [url |-> url, score |-> score]

\* the results of the (at most two) YouTube searches of one concept, each
\* holding at most three educational videos; a failed search adds nothing.
\* Scores are those of calculateYouTubeQualityScore (0.5 to 1.0).
YouTubePages ==
    { << <<Hit("y1", 6), Hit("y2", 9), Hit("y3", 5)>>,
         <<Hit("y1", 6), Hit("y4", 7), Hit("y5", 5)>> >>,
      << <<Hit("y1", 6)>>, <<>> >>,
      << <<Hit("y6", 8), Hit("y7", 5), Hit("y8", 5)>>, <<>> >> }

\* the links found by the Khan Academy search (at most three, score 0.9);
\* the page may carry the same link twice
KhanLinks == { <<Hit("k1", 9), Hit("k2", 9), Hit("k1", 9)>> }

\* the entries found by the MathWorld search (at most two, score 0.8)
MathWorldLinks == { <<Hit("m1", 8)>> }

\* the links found on the general education sites (score 0.8 and 0.7)
GeneralLinks == { <<Hit("g1", 8), Hit("g2", 7)>> }

ResourcesOf(hits, conceptID, resourceType, at) ==
    [i \in 1..Len(hits) |->
        Resource(hits[i].url, conceptID, resourceType, hits[i].score, at)]

\* searchYouTube after the searches: "Limit results and deduplicate"
searchYouTube(pages, conceptID, at) ==
    deduplicateResources(
        Truncate(ResourcesOf(Concat(pages), conceptID, "video", at),
                 youTubeLimit))

\* the lists an adapter can return without an error
AdapterResults(a, conceptID, at) ==
    CASE a = "youtube" ->
           {searchYouTube(pages, conceptID, at) : pages \in YouTubePages}
      [] a = "khan" ->
           {ResourcesOf(h, conceptID, "tutorial", at) : h \in KhanLinks}
      [] a = "mathworld" ->
           {ResourcesOf(h, conceptID, "reference", at) :
               h \in MathWorldLinks}
      [] a = "general" ->
           {ResourcesOf(h, conceptID, "article", at) : h \in GeneralLinks}

\* a window that excludes documents scraped exactly 24 hours ago
RecentlyScrapedExclusive(conceptID) ==
    \E d \in resources :
        /\ d.concept_id = conceptID
        /\ d.scraped_at > clock - recentWindowHours

\* isRecentlyScraped when CountDocuments succeeds:
\* {concept_id: conceptID, scraped_at: {$gte: now - 24h}} has a document
RecentlyScraped(conceptID) ==
    \E d \in resources :
        /\ d.concept_id = conceptID
        /\ d.scraped_at >= clock - recentWindowHours

NewId(docs) ==
    IF docs = {} THEN 1
    ELSE 1 + (CHOOSE n \in {d.id : d \in docs} :
                 \A d \in docs : d.id <= n)

\* UpdateOne({url: res.url}, {$set: res}, upsert) applied to docs in one
\* piece: the document with that URL is rewritten under its _id, and a
\* new document is inserted when there is none
Upsert(docs, res) ==
    LET found == {d \in docs : d.url = res.url}
    IN  IF found = {} THEN docs \cup {Doc(NewId(docs), res)}
        ELSE LET d == CHOOSE d \in found : \A e \in found : d.id <= e.id
             IN  (docs \ {d}) \cup {Doc(d.id, res)}

RECURSIVE UpsertAll(_, _)
UpsertAll(docs, list) ==
    IF list = <<>> THEN docs
    ELSE UpsertAll(Upsert(docs, Head(list)), Tail(list))

\* the sub-sequence of list at the positions in idx
Pick(list, idx) ==
    LET F[i \in 0..Len(list)] ==
            IF i = 0 THEN <<>>
            ELSE IF i \in idx THEN Append(F[i - 1], list[i]) ELSE F[i - 1]
    IN  F[Len(list)]

NoError == <<>>

\* the identifier of the concept names "a b" and "a-b"
sa_b == <<"a", "_", "b">>

\* ---------------------------- scrapeResourcesForConcept, adapter by adapter
IdleFan ==
    [pc |-> "idle", conceptName |-> <<>>, conceptID |-> <<>>,
     lookup |-> "none",
     adapters |-> [a \in Adapters |-> "idle"],
     returned |-> [a \in Adapters |-> <<>>],
     log |-> <<>>, allResources |-> <<>>, groupErr |-> FALSE,
     quality |-> <<>>, waits |-> 0, err |-> NoError, before |-> {}]

\* names handed to the engine
EngineNames == {<<"A", "b">>, <<"a", "-", "b">>}

\* a goroutine that returns the error of its adapter
searchGoroutineFailsWithAdapter(failed) == failed

\* the value a search goroutine returns to its errgroup: "return nil //
\* Don't fail the entire operation"
searchGoroutineFails(failed) == FALSE

\* s.scrapeResourcesForConcept(ctx, conceptName) is called
FanStart(conceptName) ==
    /\ fan.pc = "idle"
    /\ fan' = [fan EXCEPT !.pc = "checking", !.conceptName = conceptName,
                          !.conceptID = generateConceptID(conceptName),
                          !.before = resources]
    /\ UNCHANGED <<queryVars, limiter, callers, batch, reader, resolver, clock, resources, uniqueIndex, writers>>

\* CountDocuments of isRecentlyScraped returns; on an error the concept
\* counts as not recently scraped
FanIsRecentlyScrapedReturns(ok) ==
    /\ fan.pc = "checking"
    /\ LET recent == ok /\ RecentlyScraped(fan.conceptID)
       IN  fan' = [fan EXCEPT
                     !.lookup = IF ok THEN "ok" ELSE "error",
                     !.pc = IF recent THEN "done" ELSE "searching",
                     !.adapters = IF recent THEN @
                                  ELSE [a \in Adapters |-> "waiting"]]
    /\ UNCHANGED <<queryVars, limiter, callers, batch, reader, resolver, clock, resources, uniqueIndex, writers>>

\* the goroutine of adapter a ends with the given result
AdapterEnds(f, a, failed, list) ==
    [f EXCEPT !.adapters[a] = IF failed THEN "failed" ELSE "ok",
              !.returned[a] = list,
              !.log = Append(@, a),
              !.allResources = @ \o list,
              !.groupErr = @ \/ searchGoroutineFails(failed)]

\* s.limiter.Wait(ctx) returns in adapter a: with a token, or with an error
\* (the only outcome once the group context is cancelled)
FanLimiterWaitReturns(a, ok) ==
    /\ fan.pc = "searching"
    /\ fan.adapters[a] = "waiting"
    /\ ok => ~fan.groupErr
    /\ fan' = IF ok
              THEN [fan EXCEPT !.adapters[a] = "fetching",
                               !.waits = @ + 1]
              ELSE AdapterEnds(fan, a, TRUE, <<>>)
    /\ UNCHANGED <<queryVars, limiter, callers, batch, reader, resolver, clock, resources, uniqueIndex, writers>>

\* adapter a returns from its searches: with a list of resources or with
\* an error
FanAdapterReturns(a) ==
    /\ fan.pc = "searching"
    /\ fan.adapters[a] = "fetching"
    /\ \/ \E list \in AdapterResults(a, fan.conceptID, clock) :
            fan' = AdapterEnds(fan, a, FALSE, list)
       \/ fan' = AdapterEnds(fan, a, TRUE, <<>>)
    /\ UNCHANGED <<queryVars, limiter, callers, batch, reader, resolver, clock, resources, uniqueIndex, writers>>

\* g.Wait() returns, then deduplicateResources and filterQualityResources;
\* storeResources is called when the filtered list is not empty
FanWaitReturns ==
    /\ fan.pc = "searching"
    /\ \A a \in Adapters : fan.adapters[a] \in {"ok", "failed"}
    /\ LET qualityResources ==
               filterQualityResources(
                   deduplicateResources(fan.allResources))
       IN  fan' =
             IF fan.groupErr
             THEN [fan EXCEPT !.pc = "done",
                              !.err = <<"failed to search platforms">>]
             ELSE [fan EXCEPT
                     !.quality = qualityResources,
                     !.pc = IF Len(qualityResources) > 0 THEN "storing"
                            ELSE "done"]
    /\ UNCHANGED <<queryVars, limiter, callers, batch, reader, resolver, clock, resources, uniqueIndex, writers>>

\* BulkWrite (unordered) returns: every upsert applied, or an error after
\* any part of the upserts was applied
FanBulkWriteReturns ==
    /\ fan.pc = "storing"
    /\ \/ /\ resources' = UpsertAll(resources, fan.quality)
          /\ fan' = [fan EXCEPT !.pc = "done"]
       \/ \E idx \in SUBSET (1..Len(fan.quality)) :
            /\ resources' = UpsertAll(resources, Pick(fan.quality, idx))
            /\ fan' = [fan EXCEPT !.pc = "done",
                                  !.err = <<"bulk write failed">>]
    /\ UNCHANGED <<queryVars, limiter, callers, batch, reader, resolver, clock, uniqueIndex, writers>>

\* time passes before the call
FanTick ==
    /\ fan.pc = "idle"
    /\ clock + TickHours <= MaxClock
    /\ clock' = clock + TickHours
    /\ UNCHANGED <<queryVars, limiter, callers, batch, reader, resolver, resources, uniqueIndex, fan, writers>>

\* the collection before the call: empty, or holding what an earlier call
\* stored for "a_b" at hour 0

FanSeedResources ==
    { {},
      {Doc(1, Resource("y1", sa_b, "video", 6, 0)),
       Doc(2, Resource("k9", sa_b, "tutorial", 9, 0))} }

\* ------------------- concurrent calls of scrapeResourcesForConcept and the
\* collection: the upserts of a bulk write are applied one by one, and an
\* upsert first looks for a document with its URL and then updates what it
\* found or inserts a new document; only the unique index on url makes the
\* server refuse the insert of a URL that was inserted in between.
Writers == {"w1", "w2"}

IdleWriter ==
    [pc |-> "idle", conceptID |-> <<>>, quality |-> <<>>, pending |-> {},
     cur |-> 0, found |-> 0, err |-> NoError]

\* scrapeResourcesForConcept is called and isRecentlyScraped returns
WriterStart(w, conceptName, ok) ==
    /\ writers[w].pc = "idle"
    /\ LET conceptID == generateConceptID(conceptName)
           recent == ok /\ RecentlyScraped(conceptID)
       IN  writers' = [writers EXCEPT ![w] =
                         [@ EXCEPT !.conceptID = conceptID,
                                   !.pc = IF recent THEN "done"
                                          ELSE "searching"]]
    /\ UNCHANGED <<queryVars, limiter, callers, batch, reader, resolver, clock, resources, uniqueIndex, fan>>

\* g.Wait() returns in a call whose YouTube adapter was the one to return
\* resources; storeResources builds one upsert per filtered resource
WriterWaitReturns(w) ==
    /\ writers[w].pc = "searching"
    /\ \E list \in AdapterResults("youtube", writers[w].conceptID, clock) :
         LET qualityResources ==
                 filterQualityResources(deduplicateResources(list))
         IN  writers' = [writers EXCEPT ![w] =
                           [@ EXCEPT !.quality = qualityResources,
                                     !.pending = 1..Len(qualityResources),
                                     !.pc = "storing"]]
    /\ UNCHANGED <<queryVars, limiter, callers, batch, reader, resolver, clock, resources, uniqueIndex, fan>>

\* one upsert of the bulk write looks for a document with its URL
WriterUpsertFinds(w, i) ==
    /\ writers[w].pc = "storing"
    /\ writers[w].cur = 0
    /\ i \in writers[w].pending
    /\ LET found == {d \in resources : d.url = writers[w].quality[i].url}
       IN  \E id \in IF found = {} THEN {0} ELSE {d.id : d \in found} :
             writers' = [writers EXCEPT ![w] =
                           [@ EXCEPT !.cur = i, !.found = id]]
    /\ UNCHANGED <<queryVars, limiter, callers, batch, reader, resolver, clock, resources, uniqueIndex, fan>>

\* the upsert is applied: the document found is rewritten under its _id;
\* when none was found a document is inserted, unless the unique index
\* refuses it (the upsert is then tried again or reported as failed)
WriterUpsertApplies(w) ==
    LET wr == writers[w]
        res == wr.quality[wr.cur]
        finished(err) ==
            [writers EXCEPT ![w] =
               [@ EXCEPT !.cur = 0, !.found = 0, !.err = err,
                         !.pending = @ \ {wr.cur}]]
    IN  /\ wr.pc = "storing"
        /\ wr.cur # 0
        /\ IF wr.found # 0
           THEN /\ resources' =
                     {IF d.id = wr.found THEN Doc(d.id, res) ELSE d :
                         d \in resources}
                /\ writers' = finished(wr.err)
           ELSE IF uniqueIndex /\ \E d \in resources : d.url = res.url
           THEN /\ UNCHANGED resources
                /\ \/ writers' = [writers EXCEPT ![w] =
                                    [@ EXCEPT !.cur = 0, !.found = 0]]
                   \/ writers' = finished(<<"bulk write failed">>)
           ELSE /\ resources' = resources \cup {Doc(NewId(resources), res)}
                /\ writers' = finished(wr.err)
        /\ UNCHANGED <<queryVars, limiter, callers, batch, reader, resolver, clock, uniqueIndex, fan>>

\* BulkWrite returns after its last upsert
WriterBulkWriteReturns(w) ==
    /\ writers[w].pc = "storing"
    /\ writers[w].pending = {}
    /\ writers[w].cur = 0
    /\ writers' = [writers EXCEPT ![w] = [@ EXCEPT !.pc = "done"]]
    /\ UNCHANGED <<queryVars, limiter, callers, batch, reader, resolver, clock, resources, uniqueIndex, fan>>

\* time passes while no call is between its search and its bulk write
StoreTick ==
    /\ \A w \in Writers : writers[w].pc \in {"idle", "done"}
    /\ clock + TickHours <= MaxClock
    /\ clock' = clock + TickHours
    /\ UNCHANGED <<queryVars, limiter, callers, batch, reader, resolver, resources, uniqueIndex, fan, writers>>

\* ------------------------------------ ScrapeResourcesForConcepts in batches
\* status of a concept: "pending" (its batch has not begun), "queued" (its
\* batch has begun, g.Go not yet called for it), "spawned" (its goroutine
\* holds a slot of the group), "running" (scrapeResourcesForConcept is
\* searching), "storing" (storeResources is called), "ok", "failed";
\* observedCancel holds the concepts that began their search or called
\* storeResources when the context of their group was already cancelled,
\* persisted the concepts whose storeResources succeeded
IdleBatch ==
    [pc |-> "idle", conceptNames |-> <<>>, i |-> 0, status |-> <<>>,
     groupErr |-> FALSE, batches |-> <<>>, limit |-> 0,
     observedCancel |-> {}, persisted |-> {}]

\* concept lists handed to a discovery job (at most five names reach it)
BatchInputs ==
    { <<>>, <<sab>>,
      <<sab, scd, <<"e">>>>,
      <<sab, scd, <<"e">>, <<"f">>, <<"g">>>> }

\* values of ScraperConfig.MaxConcurrentRequests (0 is "not set")
ConfiguredLimits == 0..3

\* New replaces a MaxConcurrentRequests of 0 by the default
MaxConcurrentRequests(configured) ==
    IF configured = 0 THEN defaultMaxConcurrentRequests ELSE configured

\* the loop variable after a batch whose processBatch returned an error and
\* the job gave up: the loop is left
afterFailedBatchReturn(i, n) == n

\* the loop variable after a batch whose processBatch returned an error:
\* "continue", that is i += batchSize
afterFailedBatch(i, n) == i + batchSize

\* the positions of the batch that begins after position i
BatchMembers(i, n) == {k \in 1..n : i < k /\ k <= i + batchSize}

\* the goroutines of the group that have been started and have not returned
InFlight(b) ==
    {k \in 1..Len(b.conceptNames) :
        b.status[k] \in {"spawned", "running", "storing"}}

\* a group without a limit: g.Go never blocks
SlotAlwaysFree(b) == TRUE

\* g.Go blocks until the group of SetLimit(MaxConcurrentRequests) has a
\* free slot
SlotFree(b) == Cardinality(InFlight(b)) < b.limit

\* the loop condition i < len(conceptNames) and, when it holds, processBatch
\* on conceptNames[i:end] with a new group and a new group context
LoopAt(b, i) ==
    LET n == Len(b.conceptNames)
    IN  IF i >= n THEN [b EXCEPT !.pc = "done", !.i = i]
        ELSE [b EXCEPT
                !.pc = "batch", !.i = i, !.groupErr = FALSE,
                !.status = [k \in 1..n |->
                              IF k \in BatchMembers(i, n) THEN "queued"
                              ELSE @[k]],
                !.batches =
                    Append(@, [j \in 1..Cardinality(BatchMembers(i, n)) |->
                                  b.conceptNames[i + j]])]

\* ScrapeResourcesForConcepts(ctx, conceptNames) is called on a scraper
\* built with the given configuration
ScrapeResourcesForConceptsCalled(conceptNames, configured) ==
    /\ batch.pc = "idle"
    /\ batch' = LoopAt([batch EXCEPT
                          !.conceptNames = conceptNames,
                          !.limit = MaxConcurrentRequests(configured),
                          !.status = [k \in 1..Len(conceptNames) |->
                                         "pending"]], 0)
    /\ UNCHANGED <<queryVars, limiter, callers, clock, resources, uniqueIndex, fan, writers,
                   reader, resolver>>

\* the loop of processBatch calls g.Go for the concept at position k, in
\* the order of the batch, and g.Go returns: the goroutine exists
BatchGo(k) ==
    /\ batch.pc = "batch"
    /\ k \in 1..Len(batch.conceptNames)
    /\ batch.status[k] = "queued"
    /\ \A l \in 1..(k - 1) : batch.status[l] # "queued"
    /\ SlotFree(batch)
    /\ batch' = [batch EXCEPT !.status[k] = "spawned"]
    /\ UNCHANGED <<queryVars, limiter, callers, clock, resources, uniqueIndex, fan, writers,
                   reader, resolver>>

\* the goroutine of the concept at position k begins
\* scrapeResourcesForConcept with the context of the group
BatchConceptStarts(k) ==
    /\ batch.pc = "batch"
    /\ k \in 1..Len(batch.conceptNames)
    /\ batch.status[k] = "spawned"
    /\ batch' = [batch EXCEPT
                   !.status[k] = "running",
                   !.observedCancel =
                       IF batch.groupErr THEN @ \cup {k} ELSE @]
    /\ UNCHANGED <<queryVars, limiter, callers, clock, resources, uniqueIndex, fan, writers,
                   reader, resolver>>

\* the search of the concept at position k is over: with nothing to store
\* (concept recently scraped, nothing found, every adapter failed)
\* scrapeResourcesForConcept returns nil, otherwise it calls storeResources
\* with the context of the group; under a context cancelled from the
\* beginning every adapter fails at its limiter wait
BatchSearchReturns(k, found) ==
    /\ batch.pc = "batch"
    /\ k \in 1..Len(batch.conceptNames)
    /\ batch.status[k] = "running"
    /\ k \in batch.observedCancel => ~found
    /\ batch' = [batch EXCEPT
                   !.status[k] = IF found THEN "storing" ELSE "ok",
                   !.observedCancel =
                       IF found /\ batch.groupErr THEN @ \cup {k} ELSE @]
    /\ UNCHANGED <<queryVars, limiter, callers, clock, resources, uniqueIndex, fan, writers,
                   reader, resolver>>

\* storeResources and with it scrapeResourcesForConcept return for the
\* concept at position k; a bulk write called with a cancelled context
\* fails; the first error cancels the context of the group
BatchConceptReturns(k, failed) ==
    /\ batch.pc = "batch"
    /\ k \in 1..Len(batch.conceptNames)
    /\ batch.status[k] = "storing"
    /\ k \in batch.observedCancel => failed
    /\ batch' = [batch EXCEPT
                   !.status[k] = IF failed THEN "failed" ELSE "ok",
                   !.persisted = IF failed THEN @ ELSE @ \cup {k},
                   !.groupErr = @ \/ failed]
    /\ UNCHANGED <<queryVars, limiter, callers, clock, resources, uniqueIndex, fan, writers,
                   reader, resolver>>

\* g.Wait() of processBatch returns: after an error the job logs it and
\* continues with the next batch, otherwise it sleeps first
BatchWaitReturns ==
    /\ batch.pc = "batch"
    /\ \A k \in BatchMembers(batch.i, Len(batch.conceptNames)) :
          batch.status[k] \in {"ok", "failed"}
    /\ batch' =
         IF batch.groupErr
         THEN LoopAt(batch,
                     afterFailedBatch(batch.i, Len(batch.conceptNames)))
         ELSE [batch EXCEPT !.pc = "sleeping"]
    /\ UNCHANGED <<queryVars, limiter, callers, clock, resources, uniqueIndex, fan, writers,
                   reader, resolver>>

\* time.Sleep(2 * time.Second) returns
BatchSleepReturns ==
    /\ batch.pc = "sleeping"
    /\ batch' = LoopAt(batch, batch.i + batchSize)
    /\ UNCHANGED <<queryVars, limiter, callers, clock, resources, uniqueIndex, fan, writers,
                   reader, resolver>>

\* ------------------------------------------------- GetResourcesForConcepts
IdleReader ==
    [pc |-> "idle", conceptNames |-> <<>>, limit |-> 0, k |-> 0,
     fetched |-> <<>>, allResources |-> <<>>, result |-> <<>>,
     err |-> NoError]

\* queryService.generateConceptID: blanks to underscores, lower case
queryServiceGenerateConceptID(conceptName) ==
    ToLower(ReplaceAll(conceptName, " ", "_"))

\* a result that keeps the order in which the resources were fetched
KeepOrder(s) == s

\* "Sort by quality score (descending)": the same bubble sort as in the
\* quality filter
SortAllResources(s) == SortByQuality(s)

\* the sequences over the documents in docs with non-increasing scores
RECURSIVE SortedOrders(_)
SortedOrders(docs) ==
    IF docs = {} THEN {<<>>}
    ELSE UNION {{<<Fields(d)>> \o rest : rest \in SortedOrders(docs \ {d})} :
                d \in {e \in docs :
                         \A f \in docs : f.quality_score <= e.quality_score}}

\* EducationalWebScraper.GetResourcesForConcept without an error: the
\* documents of the concept sorted by quality_score descending, cut after
\* limit documents (SetLimit(0) sets no limit); documents of equal score
\* come in any order
GetResourcesForConcept(conceptID, limit) ==
    LET docs == {d \in resources : d.concept_id = conceptID}
    IN  {IF limit = 0 THEN list ELSE Truncate(list, limit) :
            list \in SortedOrders(docs)}

\* the loop is over: sort, cut to limit, return
ReaderReturn(rd) ==
    LET sorted == SortAllResources(rd.allResources)
    IN  [rd EXCEPT !.pc = "returned",
                   !.result = IF Len(sorted) > rd.limit
                              THEN SubSeq(sorted, 1, rd.limit)
                              ELSE sorted]

\* GetResourcesForConcepts(ctx, conceptNames, limit) is called
GetResourcesForConceptsCalled(conceptNames, limit) ==
    /\ reader.pc = "idle"
    /\ reader' =
         IF ~resourceScraper
         THEN [reader EXCEPT !.pc = "returned",
                             !.err = <<"resource scraper not available">>]
         ELSE LET rd == [reader EXCEPT !.conceptNames = conceptNames,
                                       !.limit = limit, !.k = 1]
              IN  IF conceptNames = <<>> THEN ReaderReturn(rd)
                  ELSE [rd EXCEPT !.pc = "fetching"]
    /\ UNCHANGED <<queryVars, limiter, callers, clock, resources, uniqueIndex, fan, writers,
                   batch, resolver>>

\* GetResourcesForConcept returns for the name at position k: with an error
\* the name is passed over, otherwise its resources are appended
GetResourcesForConceptReturns ==
    /\ reader.pc = "fetching"
    /\ LET conceptID ==
               queryServiceGenerateConceptID(reader.conceptNames[reader.k])
           next(rd) == IF rd.k > Len(rd.conceptNames) THEN ReaderReturn(rd)
                       ELSE rd
       IN  \/ reader' = next([reader EXCEPT
                                !.k = @ + 1,
                                !.fetched = Append(@, <<"failed">>)])
           \/ \E list \in GetResourcesForConcept(conceptID, reader.limit) :
                reader' = next([reader EXCEPT
                                  !.k = @ + 1,
                                  !.fetched = Append(@, <<"ok", list>>),
                                  !.allResources = @ \o list])
    /\ UNCHANGED <<queryVars, limiter, callers, clock, resources, uniqueIndex, fan, writers,
                   batch, resolver>>

\* names handed to GetResourcesForConcepts
sa_b_name == <<"a", " ", "b">>
sAb_name == <<"A", "b">>
sa_dash_b_name == <<"a", "-", "b">>

ReadNameLists ==
    { <<>>, <<sa_b_name>>, <<sa_b_name, sAb_name>>,
      <<sa_b_name, sa_b_name>>, <<sAb_name, <<"e">>, sa_b_name>>,
      <<sa_dash_b_name>>, <<sAb_name, sa_dash_b_name>> }

\* a collection as discovery calls for "a b" or "a-b" and for "Ab" leave it
ReadSeedResources ==
    { {Doc(1, Resource("y1", sa_b, "video", 6, 0)),
       Doc(2, Resource("k9", sa_b, "tutorial", 9, 0)),
       Doc(3, Resource("g1", sa_b, "article", 8, 0)),
       Doc(4, Resource("y2", sab, "video", 9, 0)),
       Doc(5, Resource("m1", sab, "reference", 8, 0)),
       Doc(6, Resource("y3", sab, "video", 5, 0)),
       Doc(7, Resource("k8", sa_b, "tutorial", 9, 0))} }

\* ---------------------------------- Client.FindPrerequisitePath name by name
IdleResolver ==
    [pc |-> "idle", targetConcepts |-> <<>>, k |-> 0, lookups |-> <<>>,
     targetIDs |-> <<>>, calls |-> <<>>, result |-> <<>>, err |-> NoError]

\* the branch taken when a look-up fails and the resolution gives up:
\* the error is returned
afterFailedLookupReturn(rs, next) ==
    [rs EXCEPT !.pc = "returned",
               !.err = <<"failed to find concept ID">>]

\* the branch taken when FindConceptID returns an error: a warning and
\* "continue"
afterFailedLookup(rs, next) == next

\* the loop over targetConcepts is over: without target ids an empty list
\* is returned, otherwise the path query is sent
ResolverAfterLoop(rs) ==
    IF rs.k <= Len(rs.targetConcepts) THEN rs
    ELSE IF Len(rs.targetIDs) = 0 THEN [rs EXCEPT !.pc = "returned"]
    ELSE [rs EXCEPT !.pc = "path", !.calls = Append(@, "FindPath")]

\* c.FindPrerequisitePath(ctx, targetConcepts) is called; an empty list is
\* answered before any session is used
FindPrerequisitePathCalled(targetConcepts) ==
    /\ resolver.pc = "idle"
    /\ resolver' =
         IF Len(targetConcepts) = 0
         THEN [resolver EXCEPT !.pc = "returned"]
         ELSE [resolver EXCEPT !.pc = "lookup", !.k = 1,
                               !.targetConcepts = targetConcepts,
                               !.calls = <<"FindConceptID">>]
    /\ UNCHANGED <<queryVars, limiter, callers, clock, resources, uniqueIndex, fan, writers,
                   batch, reader>>

\* c.FindConceptID returns for the name at position k: an error, no match
\* (nil), or the id of one matching concept
FindConceptIDReturns ==
    /\ resolver.pc = "lookup"
    /\ LET name == resolver.targetConcepts[resolver.k]
           step(rs) ==
               ResolverAfterLoop(
                   [rs EXCEPT !.k = @ + 1,
                              !.calls = IF rs.k < Len(rs.targetConcepts)
                                        THEN Append(@, "FindConceptID")
                                        ELSE @])
       IN  \/ resolver' =
                afterFailedLookup(
                    resolver,
                    step([resolver EXCEPT !.lookups = Append(@, "error")]))
           \/ /\ FindConceptID(name) = {}
              /\ resolver' =
                   step([resolver EXCEPT !.lookups = Append(@, "none")])
           \/ \E id \in FindConceptID(name) :
                resolver' =
                   step([resolver EXCEPT
                           !.lookups = Append(@, "found"),
                           !.targetIDs = Append(@, id)])
    /\ UNCHANGED <<queryVars, limiter, callers, clock, resources, uniqueIndex, fan, writers,
                   batch, reader>>

\* the path query returns: the concepts of the path, or an error
FindPathReturns ==
    /\ resolver.pc = "path"
    /\ \/ resolver' =
            [resolver EXCEPT
               !.pc = "returned",
               !.result = PathForTargets(
                              {resolver.targetIDs[i] :
                                  i \in 1..Len(resolver.targetIDs)})]
       \/ resolver' =
            [resolver EXCEPT
               !.pc = "returned",
               !.err = <<"failed to find prerequisite path">>]
    /\ UNCHANGED <<queryVars, limiter, callers, clock, resources, uniqueIndex, fan, writers,
                   batch, reader>>

\* name lists handed to the resolution: "e", "f" and "g h" name no concept
\* of the graph, "b" and "d" are part of the name of one and the empty name
\* is part of every name
sgh == <<"g", " ", "h">>

ResolveInputs ==
    { <<>>, <<<<"e">>>>, <<<<"e">>, <<"f">>, sgh>>, <<sab>>,
      <<<<"e">>, sab>>, <<scd, <<"f">>, sab>>, <<<<"A", "B">>, <<"e">>>>,
      <<<<"b">>, <<"e">>, <<"d">>>>, <<<<>>, sgh>>, <<sab, scd>>,
      <<<<"x">>, scd, <<"b">>>> }

\* the engine at rest
\* ------------------------------ the adapters and the limiter of a scraper
\* per adapter call: pc ("idle", "waiting", "fetching", "returned",
\* "error") and i, the number of fetches it has made; tokens counts the
\* waits the limiter has granted, requests the HTTP requests handed to the
\* network, ctxDone tells that the context of the calls has expired
IdleLimiter ==
    [tokens |-> 0, requests |-> 0, ctxDone |-> FALSE,
     adapters |-> [a \in Adapters |-> [pc |-> "idle", i |-> 0]]]

\* the fetches an adapter makes after its wait: searchYouTube runs
\* scrapeYouTubeResults for its first two search terms (generateSearchTerms
\* yields at least three), searchGeneralEducationSites visits two sites
Fetches(a) ==
    CASE a = "youtube" -> youTubeSearches
      [] a = "khan" -> 1
      [] a = "mathworld" -> 1
      [] a = "general" -> generalSites

\* the adapters that give up at the first fetch that fails; the loops of
\* the two others log the failure and continue
ReturnsFetchError(a) == a \in {"khan", "mathworld"}

\* where an adapter is after its fetch number i
AfterFetch(a, i, ok) ==
    IF ReturnsFetchError(a) /\ ~ok THEN "error"
    ELSE IF i >= Fetches(a) THEN "returned"
    ELSE "fetching"

\* a search function is called (by the goroutine of a fan-out)
AdapterCalled(a) ==
    /\ limiter.adapters[a].pc = "idle"
    /\ limiter' = [limiter EXCEPT !.adapters[a].pc = "waiting"]
    /\ UNCHANGED <<queryVars, callers, clock, resources, uniqueIndex, fan,
                   writers, batch, reader, resolver>>

\* s.limiter.Wait(ctx) returns: with a token, or with an error once the
\* context has expired; on the error the adapter returns it
LimiterWaitReturns(a) ==
    /\ limiter.adapters[a].pc = "waiting"
    /\ limiter' =
         IF limiter.ctxDone
         THEN [limiter EXCEPT !.adapters[a].pc = "error"]
         ELSE [limiter EXCEPT !.adapters[a].pc = "fetching",
                              !.tokens = @ + 1]
    /\ UNCHANGED <<queryVars, callers, clock, resources, uniqueIndex, fan,
                   writers, batch, reader, resolver>>

\* s.httpClient.Do(req) returns in adapter a: the request went out unless
\* the context had already expired; with a response, or with an error
HTTPFetchReturns(a, ok) ==
    /\ limiter.adapters[a].pc = "fetching"
    /\ ok => ~limiter.ctxDone
    /\ LET i == limiter.adapters[a].i + 1
       IN  limiter' =
             [limiter EXCEPT
                !.requests = IF limiter.ctxDone THEN @ ELSE @ + 1,
                !.adapters[a] = [pc |-> AfterFetch(a, i, ok), i |-> i]]
    /\ UNCHANGED <<queryVars, callers, clock, resources, uniqueIndex, fan,
                   writers, batch, reader, resolver>>

\* the deadline of the context passes
ContextExpires ==
    /\ ~limiter.ctxDone
    /\ limiter' = [limiter EXCEPT !.ctxDone = TRUE]
    /\ UNCHANGED <<queryVars, callers, clock, resources, uniqueIndex, fan,
                   writers, batch, reader, resolver>>

\* ------------------------------------------- the stages of the pipeline
\* the stage calls of ProcessQuery in the order the code makes them
StageOrder ==
    <<"IdentifyConcepts", "FindPrerequisitePath", "Search",
      "GenerateExplanation">>

\* the names under which the stages are recorded in Query.Metadata
StepNames ==
    <<"identify_concepts", "find_prerequisites", "vector_search",
      "generate_explanation">>

\* the stages whose failure ends the run, with the message that names them
FatalStages == {1, 2, 4}

StageErrorMessage(k) ==
    CASE k = 1 -> "concept identification failed"
      [] k = 2 -> "prerequisite path finding failed"
      [] k = 4 -> "explanation generation failed"

\* ------------------------------ concurrent calls of SmartConceptQuery
\* per call: pc ("idle", "lookup", "identify", "path", "search", "explain",
\* "returned"), the concept name, the index of the search term of the
\* lookup, the Query of its fresh run, what it returned, the background
\* jobs it started, the state of the save of its Query ("none",
\* "pending", "ok", "failed"), the state of its refresh job ("none",
\* "pending", "done") and the list that job handed to the engine; the
\* day of the call, the calls whose save had succeeded when this call was
\* made, and whether one of its lookups returned without an error
Callers == {"c1", "c2"}

\* concept names submitted by the callers; the request format requires a
\* name that is not empty
CallerNames == SmartNames \cup {<<" ">>}

\* concept names submitted by calls that follow one another: also a name
\* that ends with a sign
sab_q == <<"a", "b", "?">>

LaterNames == CallerNames \cup {sab_q}

IdleCaller ==
    [pc |-> "idle", arg |-> <<>>, term |-> 0, q |-> NoQuery,
     result |-> NoResult, err |-> <<>>, fromCache |-> FALSE,
     cachedId |-> 0, started |-> {}, save |-> "none", gather |-> "none",
     handed |-> <<>>, calledAt |-> 0, after |-> {}, answered |-> FALSE]

IdleCallers == [c \in Callers |-> IdleCaller]

\* a Save that replaces the record of the same question
SaveReplacingSameQuestion(docs, q) ==
    {d \in docs : d.text # q.text} \cup {q}

\* mongoQueryRepository.Save: InsertOne of the Query
Save(docs, q) == docs \cup {q}

\* SmartConceptQuery(ctx, conceptName, ...) is called; the calls are named
\* in the order in which they are made
SmartConceptQueryCalled(c, conceptName) ==
    /\ callers[c].pc = "idle"
    /\ c = "c1" \/ callers["c1"].pc # "idle"
    /\ callers' = [callers EXCEPT ![c] =
                     [@ EXCEPT !.pc = "lookup", !.arg = conceptName,
                               !.term = 1, !.calledAt = now,
                               !.after = {d \in Callers :
                                            callers[d].save = "ok"}]]
    /\ UNCHANGED <<now, nextId, started, req, cancelled, jobs, store,
                   resourceScraper, clock, resources, uniqueIndex, fan,
                   writers, batch, reader, resolver, limiter>>

\* Step 3 of SmartConceptQuery in call c: ProcessQuery on the prompt, up to
\* the call of IdentifyConcepts
CallerFreshRun(c, cl) ==
    /\ callers' = [callers EXCEPT ![c] =
                     [cl EXCEPT
                        !.q = NewQuery(nextId,
                                       buildConceptQueryPrompt(cl.arg), now),
                        !.term = 0, !.pc = "identify"]]
    /\ nextId' = nextId + 1

\* one FindByConceptName of FindCachedConceptQuery returns in call c: a
\* record young enough is returned and the refresh started, an error or no
\* record leads to the next search term and, after the last, to a fresh run
CallerLookupReturns(c, failed) ==
    /\ callers[c].pc = "lookup"
    /\ LET found == FindByConceptName(
                        SearchStrategies(callers[c].arg)[callers[c].term])
           cl == [callers[c] EXCEPT !.answered = @ \/ ~failed]
       IN  IF ~failed /\ found # {}
           THEN \E doc \in found :
                  LET cachedQuery == bsonToQuery(doc)
                      seen == [cl EXCEPT !.cachedId = cachedQuery.id]
                  IN  IF IsFresh(now - cachedQuery.timestamp)
                      THEN /\ callers' = [callers EXCEPT ![c] =
                                [seen EXCEPT
                                   !.pc = "returned", !.fromCache = TRUE,
                                   !.result = CachedResult(cachedQuery),
                                   !.started = @ \cup {"gather"},
                                   !.gather = "pending"]]
                           /\ UNCHANGED nextId
                      ELSE CallerFreshRun(c, seen)
           ELSE IF cl.term < Len(SearchStrategies(cl.arg))
           THEN /\ callers' = [callers EXCEPT ![c] =
                                 [cl EXCEPT !.term = @ + 1]]
                /\ UNCHANGED nextId
           ELSE CallerFreshRun(c, cl)
    /\ UNCHANGED <<now, started, req, cancelled, jobs, store,
                   resourceScraper, clock, resources, uniqueIndex, fan,
                   writers, batch, reader, resolver, limiter>>

\* the end of ProcessQuery and SmartConceptQuery in call c:
\* MarkCompleted, saveQueryAsync and the return
CallerReturns(c, cl, q, res, err) ==
    callers' = [callers EXCEPT ![c] =
       [cl EXCEPT
          !.pc = "returned", !.q = MarkCompleted(q, err),
          !.result = IF err = <<>> THEN res ELSE NoResult,
          !.err = IF err = <<>> THEN <<>>
                  ELSE Wrap("failed to process fresh concept query",
                            Wrap("failed to process query", err)),
          !.save = "pending"]]

\* the stage call that call c waits for returns, with or without an error
CallerStageReturns(c, ok) ==
    /\ callers[c].pc \in {"identify", "path", "search", "explain"}
    /\ LET cl == callers[c]
           k == Len(cl.q.steps) + 1
           err == IF ok THEN <<>> ELSE <<"call failed">>
           q == AddProcessingStep(cl.q, StepNames[k], err)
           failure == Wrap(StageErrorMessage(k), err)
       IN  CASE cl.pc = "identify" ->
                  IF ok
                  THEN \E conceptNames \in IdentifyLists :
                         callers' = [callers EXCEPT ![c] =
                            [cl EXCEPT
                               !.q = [q EXCEPT !.identified = conceptNames],
                               !.result = [NoResult EXCEPT
                                             !.present = TRUE,
                                             !.qid = q.id,
                                             !.concepts = conceptNames],
                               !.pc = "path"]]
                  ELSE CallerReturns(c, cl, q, NoResult, failure)
             [] cl.pc = "path" ->
                  IF ok
                  THEN LET path == FindPrerequisitePath(cl.q.identified)
                       IN  callers' = [callers EXCEPT ![c] =
                             [cl EXCEPT
                                !.q = [q EXCEPT !.path = path],
                                !.result = [@ EXCEPT !.path = path],
                                !.started =
                                    IF resourceScraper
                                       /\ Len(cl.q.identified) > 0
                                    THEN @ \cup {"scrape"} ELSE @,
                                !.pc = "search"]]
                  ELSE CallerReturns(c, cl, q, NoResult, failure)
             [] cl.pc = "search" ->
                  \E chunks \in ChunkLists :
                     callers' = [callers EXCEPT ![c] =
                        [cl EXCEPT
                           !.q = q,
                           !.result = [@ EXCEPT !.context =
                                         ContextAfterSearch(chunks, err)],
                           !.pc = "explain"]]
             [] cl.pc = "explain" ->
                  IF ok
                  THEN \E explanation \in Explanations :
                         CallerReturns(c, cl,
                            [q EXCEPT !.explanation = explanation,
                                      !.context = cl.result.context],
                            [cl.result EXCEPT !.explanation = explanation],
                            <<>>)
                  ELSE CallerReturns(c, cl, q, NoResult, failure)
    /\ UNCHANGED <<now, nextId, started, req, cancelled, jobs, store,
                   resourceScraper, clock, resources, uniqueIndex, fan,
                   writers, batch, reader, resolver, limiter>>

\* no call and no goroutine of a call is under way
CallersAtRest ==
    \A c \in Callers :
        /\ callers[c].pc \in {"idle", "returned"}
        /\ callers[c].save # "pending"
        /\ callers[c].gather # "pending"

\* SmartConceptQuery is called after the calls before it and their
\* goroutines have ended
LaterCall(c, conceptName) ==
    /\ CallersAtRest
    /\ SmartConceptQueryCalled(c, conceptName)

\* days pass before a call
CallerTick ==
    /\ \E c \in Callers : callers[c].pc = "idle"
    /\ CallersAtRest
    /\ \E d \in TickSteps :
         /\ now + d <= MaxTime
         /\ now' = now + d
    /\ UNCHANGED <<nextId, started, req, cancelled, jobs, store,
                   resourceScraper, engineVars>>

\* the goroutine of gatherResourcesInBackground of call c runs up to its
\* call of ScrapeResourcesForConcepts
CallerGatherRuns(c) ==
    /\ callers[c].gather = "pending"
    /\ callers' = [callers EXCEPT ![c] =
                     [@ EXCEPT !.gather = "done",
                               !.handed =
                                   GatherList(callers[c].arg,
                                              callers[c].result.concepts)]]
    /\ UNCHANGED <<now, nextId, started, req, cancelled, jobs, store,
                   resourceScraper, clock, resources, uniqueIndex, fan,
                   writers, batch, reader, resolver, limiter>>

\* the goroutine of saveQueryAsync of call c runs: queryRepo.Save inserts
\* the Query or fails
CallerSaveRuns(c, ok) ==
    /\ callers[c].save = "pending"
    /\ callers' = [callers EXCEPT ![c] =
                     [@ EXCEPT !.save = IF ok THEN "ok" ELSE "failed"]]
    /\ store' = IF ok THEN Save(store, callers[c].q) ELSE store
    /\ UNCHANGED <<now, nextId, started, req, cancelled, jobs,
                   resourceScraper, clock, resources, uniqueIndex, fan,
                   writers, batch, reader, resolver, limiter>>

EngineIdle ==
    /\ clock = StartHour
    /\ resources = {}
    /\ uniqueIndex = TRUE
    /\ fan = IdleFan
    /\ writers = [w \in Writers |-> IdleWriter]
    /\ batch = IdleBatch
    /\ reader = IdleReader
    /\ resolver = IdleResolver
    /\ limiter = IdleLimiter
    /\ callers = IdleCallers

\* ------------------------------------------------------------------ spec
\* the Query document a successful earlier run of ProcessQuery left in the
\* store
CompletedDoc(id, text, conceptNames, chunks, explanation, ts) ==
    LET q0 == NewQuery(id, text, ts)
        q1 == [AddProcessingStep(q0, "identify_concepts", <<>>)
                 EXCEPT !.identified = conceptNames]
        q2 == [AddProcessingStep(q1, "find_prerequisites", <<>>)
                 EXCEPT !.path = FindPrerequisitePath(conceptNames)]
        q3 == AddProcessingStep(q2, "vector_search", <<>>)
        q4 == [AddProcessingStep(q3, "generate_explanation", <<>>)
                 EXCEPT !.explanation = explanation, !.context = chunks]
    IN  MarkCompleted(q4, <<>>)

\* the "queries" collection the service may find at start-up: empty, or
\* holding documents of earlier runs
SeedStores ==
    {{},
     {CompletedDoc(1, <<"a", "b", " ", "x">>, <<sab>>, <<"k1">>,
                   <<"E", "1">>, 0),
      CompletedDoc(2, <<"a", "b", " ", "x">>, <<scd>>, <<"k1">>,
                   <<"E", "2">>, 10)}}

\* the state after NewContainer: it returns a service only after
\* initializeScraper succeeded, so the query service has a resource scraper
Init ==
    /\ now = 20
    /\ nextId = 3
    /\ started = 0
    /\ req = [r \in Req |-> IdleReq]
    /\ cancelled = {}
    /\ jobs = <<>>
    /\ store \in SeedStores
    /\ resourceScraper = TRUE
    /\ EngineIdle

Next ==
    \/ \E r \in Req, question \in Questions : StartProcessQuery(r, question)
    \/ \E r \in Req, conceptName \in SmartNames :
          StartSmartConceptQuery(r, conceptName)
    \/ \E r \in Req : FindByConceptNameReturns(r)
    \/ \E r \in Req : IdentifyConceptsReturns(r)
    \/ \E r \in Req : FindPrerequisitePathReturns(r)
    \/ \E r \in Req : SearchReturns(r)
    \/ \E r \in Req : GenerateExplanationReturns(r)
    \/ \E j \in 1..Len(jobs) : RunSaveJob(j)
    \/ \E j \in 1..Len(jobs) : RunScrapeJob(j)
    \/ \E j \in 1..Len(jobs) : RunGatherJob(j)
    \/ \E r \in Req : CancelRequest(r)
    \/ Tick

Spec == Init /\ [][Next]_vars

\* the query side at rest
QueryIdle ==
    /\ now = 20
    /\ nextId = 3
    /\ started = 0
    /\ req = [r \in Req |-> IdleReq]
    /\ cancelled = {}
    /\ jobs = <<>>
    /\ store = {}
    /\ resourceScraper = TRUE

\* ------------------------- one call of scrapeResourcesForConcept in detail
InitFanout ==
    /\ QueryIdle
    /\ clock = StartHour
    /\ resources \in FanSeedResources
    /\ uniqueIndex = TRUE
    /\ fan = IdleFan
    /\ writers = [w \in Writers |-> IdleWriter]
    /\ batch = IdleBatch
    /\ reader = IdleReader
    /\ resolver = IdleResolver
    /\ limiter = IdleLimiter
    /\ callers = IdleCallers

NextFanout ==
    \/ \E conceptName \in EngineNames : FanStart(conceptName)
    \/ \E ok \in BOOLEAN : FanIsRecentlyScrapedReturns(ok)
    \/ \E a \in Adapters, ok \in BOOLEAN : FanLimiterWaitReturns(a, ok)
    \/ \E a \in Adapters : FanAdapterReturns(a)
    \/ FanWaitReturns
    \/ FanBulkWriteReturns
    \/ FanTick

SpecFanout == InitFanout /\ [][NextFanout]_vars

\* ----------------- two concurrent calls of scrapeResourcesForConcept; New
\* goes on without the unique index when createIndexes fails
InitStore ==
    /\ QueryIdle
    /\ clock = StartHour
    /\ resources \in FanSeedResources
    /\ uniqueIndex \in BOOLEAN
    /\ fan = IdleFan
    /\ writers = [w \in Writers |-> IdleWriter]
    /\ batch = IdleBatch
    /\ reader = IdleReader
    /\ resolver = IdleResolver
    /\ limiter = IdleLimiter
    /\ callers = IdleCallers

NextStore ==
    \/ \E w \in Writers, conceptName \in EngineNames, ok \in BOOLEAN :
          WriterStart(w, conceptName, ok)
    \/ \E w \in Writers : WriterWaitReturns(w)
    \/ \E w \in Writers, i \in 1..maxPerConcept : WriterUpsertFinds(w, i)
    \/ \E w \in Writers : WriterUpsertApplies(w)
    \/ \E w \in Writers : WriterBulkWriteReturns(w)
    \/ StoreTick

SpecStore == InitStore /\ [][NextStore]_vars

\* --------------------------- one discovery job over its batches; every call
\* a concept makes is under a deadline, so every step that can be taken is
\* taken eventually
InitBatch ==
    /\ QueryIdle
    /\ EngineIdle

NextBatch ==
    \/ \E conceptNames \in BatchInputs, configured \in ConfiguredLimits :
          ScrapeResourcesForConceptsCalled(conceptNames, configured)
    \/ \E k \in 1..maxConceptsScrape : BatchGo(k)
    \/ \E k \in 1..maxConceptsScrape : BatchConceptStarts(k)
    \/ \E k \in 1..maxConceptsScrape, found \in BOOLEAN :
          BatchSearchReturns(k, found)
    \/ \E k \in 1..maxConceptsScrape, failed \in BOOLEAN :
          BatchConceptReturns(k, failed)
    \/ BatchWaitReturns
    \/ BatchSleepReturns

SpecBatch == InitBatch /\ [][NextBatch]_vars /\ WF_vars(NextBatch)

\* ------------------------------------- one call of GetResourcesForConcepts
InitRead ==
    /\ QueryIdle
    /\ clock = StartHour
    /\ resources \in ReadSeedResources
    /\ uniqueIndex = TRUE
    /\ fan = IdleFan
    /\ writers = [w \in Writers |-> IdleWriter]
    /\ batch = IdleBatch
    /\ reader = IdleReader
    /\ resolver = IdleResolver
    /\ limiter = IdleLimiter
    /\ callers = IdleCallers

NextRead ==
    \/ \E conceptNames \in ReadNameLists, limit \in 0..MaxLimit :
          GetResourcesForConceptsCalled(conceptNames, limit)
    \/ GetResourcesForConceptReturns

SpecRead == InitRead /\ [][NextRead]_vars

\* ---------------------------------- one call of Client.FindPrerequisitePath
InitResolve ==
    /\ QueryIdle
    /\ EngineIdle

NextResolve ==
    \/ \E targetConcepts \in ResolveInputs :
          FindPrerequisitePathCalled(targetConcepts)
    \/ FindConceptIDReturns
    \/ FindPathReturns

SpecResolve == InitResolve /\ [][NextResolve]_vars

\* ------------------- the four adapter calls of one fan-out on one limiter
InitLimiter ==
    /\ QueryIdle
    /\ EngineIdle

NextLimiter ==
    \/ \E a \in Adapters : AdapterCalled(a)
    \/ \E a \in Adapters : LimiterWaitReturns(a)
    \/ \E a \in Adapters, ok \in BOOLEAN : HTTPFetchReturns(a, ok)
    \/ ContextExpires

SpecLimiter == InitLimiter /\ [][NextLimiter]_vars

\* --------------------------- two concurrent calls of SmartConceptQuery on
\* a query store that is empty or holds documents of earlier runs
InitCallers ==
    /\ now = 20
    /\ nextId = 3
    /\ started = 0
    /\ req = [r \in Req |-> IdleReq]
    /\ cancelled = {}
    /\ jobs = <<>>
    /\ store \in SeedStores
    /\ resourceScraper = TRUE
    /\ EngineIdle

NextCallers ==
    \/ \E c \in Callers, conceptName \in CallerNames :
          SmartConceptQueryCalled(c, conceptName)
    \/ \E c \in Callers, failed \in BOOLEAN : CallerLookupReturns(c, failed)
    \/ \E c \in Callers, ok \in BOOLEAN : CallerStageReturns(c, ok)
    \/ \E c \in Callers, ok \in BOOLEAN : CallerSaveRuns(c, ok)
    \/ \E c \in Callers : CallerGatherRuns(c)

SpecCallers == InitCallers /\ [][NextCallers]_vars

\* ------------------- calls of SmartConceptQuery one after the other, days
\* apart, on a query store that is empty or holds documents of earlier runs
InitLater == InitCallers

NextLater ==
    \/ \E c \in Callers, conceptName \in LaterNames :
          LaterCall(c, conceptName)
    \/ \E c \in Callers, failed \in BOOLEAN : CallerLookupReturns(c, failed)
    \/ \E c \in Callers, ok \in BOOLEAN : CallerStageReturns(c, ok)
    \/ \E c \in Callers, ok \in BOOLEAN : CallerSaveRuns(c, ok)
    \/ \E c \in Callers : CallerGatherRuns(c)
    \/ CallerTick

SpecLater == InitLater /\ [][NextLater]_vars

\* ---------------------------------------------------------------- claims
\* the stage calls request r made so far (cache lookups left out)
StageCalls(r) ==
    SelectSeq(req[r].calls, LAMBDA c : c # "FindByConceptName")

Mentions(err, msg) == \E i \in 1..Len(err) : err[i] = msg

\* request r ran (or runs) the pipeline of ProcessQuery
RunsPipeline(r) == req[r].pc \notin {"idle", "lookup"} /\ ~req[r].fromCache

StepFailed(r, k) ==
    /\ k <= Len(req[r].q.steps)
    /\ ~req[r].q.steps[k].success

\* C1: a run calls concept identification, prerequisite-path resolution,
\* context retrieval and explanation generation strictly in this order; when
\* identification, path resolution or explanation generation fails, no later
\* stage is called, no result is returned and the returned error names the
\* failed stage; a run returns an error only for such a failure.
C1_StagesInOrderFatalErrorsNamed ==
    \A r \in Req : RunsPipeline(r) =>
        LET sc == StageCalls(r)
            k == Len(sc)
            rq == req[r]
        IN  /\ k \in 1..4
            /\ sc = SubSeq(StageOrder, 1, k)
            /\ Len(rq.q.steps) = IF rq.pc = "returned" THEN k ELSE k - 1
            /\ \A i \in 1..Len(rq.q.steps) : rq.q.steps[i].name = StepNames[i]
            /\ \A i \in FatalStages : StepFailed(r, i) =>
                   /\ rq.pc = "returned"
                   /\ k = i
                   /\ rq.result = NoResult
                   /\ Mentions(rq.err, StageErrorMessage(i))
            /\ (rq.pc = "returned" /\ rq.err # <<>>) =>
                   k \in FatalStages /\ StepFailed(r, k)
            /\ (rq.pc = "returned" /\ rq.err = <<>>) =>
                   k = 4 /\ rq.result.present

\* a run ended by a failed path resolution, after identification succeeded
C1_Witness ==
    \E r \in Req :
        /\ req[r].pc = "returned"
        /\ StageCalls(r) = <<"IdentifyConcepts", "FindPrerequisitePath">>
        /\ StepFailed(r, 2)
        /\ req[r].err # <<>>

\* C2: a failure of context retrieval does not fail the run: the explanation
\* stage is still called, with an empty list of context chunks, and the
\* result then carries an empty retrievedContext.
C2_RetrievalFailureTolerated ==
    \A r \in Req : (RunsPipeline(r) /\ StepFailed(r, 3)) =>
        LET rq == req[r] IN
        /\ StageCalls(r) = StageOrder
        /\ rq.llmReq.sent
        /\ rq.llmReq.chunks = <<>>
        /\ rq.llmReq.query = rq.q.text
        /\ (rq.pc = "returned" /\ ~StepFailed(r, 4)) =>
               /\ rq.err = <<>>
               /\ rq.result.present
               /\ rq.result.context = <<>>
               /\ rq.result.explanation = rq.q.explanation

\* a run that returned an explanation although retrieval failed
C2_Witness ==
    \E r \in Req :
        /\ req[r].pc = "returned"
        /\ RunsPipeline(r)
        /\ StepFailed(r, 3)
        /\ req[r].err = <<>>
        /\ req[r].result.explanation # <<>>
        /\ req[r].result.context = <<>>


\* the background jobs of a kind that carry the identifier of Query id
JobsFor(kind, id) ==
    {j \in 1..Len(jobs) : jobs[j].kind = kind /\ jobs[j].qid = id}

DocsWithId(id) == {d \in store : d.id = id}

\* a Query that is recorded as failed carries an error and no explanation
FailedQueryIsEmpty(q) ==
    ~q.success => (q.errorMessage # <<>> /\ q.explanation = <<>>)

\* C3: a Query whose success flag is false has an empty explanation;
\* ProcessQuery never returns an explanation together with an error; the
\* Query saved after a fatal stage failure has success = false, a non-empty
\* error message and an empty explanation.
C3_FailedQueryHasNoExplanation ==
    /\ \A r \in Req :
         LET rq == req[r] IN
         /\ ~rq.q.success => rq.q.explanation = <<>>
         /\ (RunsPipeline(r) /\ rq.pc = "returned") =>
              /\ (rq.err # <<>>) <=> ~rq.q.success
              /\ rq.err # <<>> =>
                   /\ ~rq.result.present
                   /\ rq.result.explanation = <<>>
                   /\ rq.q.errorMessage # <<>>
                   /\ rq.q.explanation = <<>>
              /\ \A j \in JobsFor("save", rq.q.id) : jobs[j].q = rq.q
    /\ \A j \in 1..Len(jobs) :
         jobs[j].kind = "save" => FailedQueryIsEmpty(jobs[j].q)
    /\ \A d \in store : FailedQueryIsEmpty(d)

\* the record of a run that failed in explanation generation is in the store
C3_Witness ==
    \E d \in store :
        /\ ~d.success
        /\ d.errorMessage # <<>>
        /\ d.explanation = <<>>
        /\ Len(d.steps) = 4
        /\ ~d.steps[4].success

\* C4 as stated: after a run and its background save have finished, the
\* store holds exactly one record with the identifier of the run's Query.
C4_Original_ExactlyOneRecord ==
    \A j \in 1..Len(jobs) :
        (jobs[j].kind = "save" /\ jobs[j].status = "done") =>
            Cardinality(DocsWithId(jobs[j].qid)) = 1

\* C4 (amended): every ProcessQuery run, successful or not, dispatches
\* exactly one save of its Query, at its end and without waiting for it;
\* the save is attempted once, so the store holds at most one record with
\* that identifier, exactly one (the completed Query) when the insert
\* succeeded.
C4_SavedAtMostOnce ==
    /\ \A r \in Req : RunsPipeline(r) =>
         Cardinality(JobsFor("save", req[r].q.id)) =
             IF req[r].pc = "returned" THEN 1 ELSE 0
    /\ \A j \in 1..Len(jobs) : jobs[j].kind = "save" =>
         LET job == jobs[j]
             docs == DocsWithId(job.qid)
         IN  /\ \E r \in Req : /\ req[r].ctx = job.owner
                               /\ req[r].pc = "returned"
                               /\ req[r].q = job.q
             /\ job.status = "pending" => docs = {}
             /\ (job.status = "done" /\ job.outcome = "ok") => docs = {job.q}
             /\ Cardinality(docs) <= 1
    /\ \A d, e \in store : d.id = e.id => d = e

\* the Query of a failed run was inserted by its save job
C4_Witness ==
    \E j \in 1..Len(jobs) :
        /\ jobs[j].kind = "save"
        /\ jobs[j].status = "done"
        /\ jobs[j].outcome = "ok"
        /\ ~jobs[j].q.success
        /\ DocsWithId(jobs[j].qid) = {jobs[j].q}

\* C5: cancelling the context of the request that dispatched a background
\* save or a background discovery job does not cancel the job: the job ends
\* with the outcome of its own work or of its own deadline.
C5_JobsSurviveRequestCancel ==
    \A j \in 1..Len(jobs) : jobs[j].status = "done" =>
        /\ jobs[j].outcome # "canceled"
        /\ jobs[j].kind = "save" => jobs[j].outcome \in {"ok", "failed"}
        /\ jobs[j].kind \in {"scrape", "gather"} =>
               /\ jobs[j].outcome \in {"done", "timeout"}
               /\ jobs[j].handed

\* a save and a discovery job that ran to their end after the request that
\* dispatched them was cancelled
C5_Witness ==
    \E j, k \in 1..Len(jobs) :
        /\ jobs[j].kind = "save"
        /\ jobs[j].status = "done"
        /\ jobs[j].reqCancelledAtRun
        /\ jobs[j].outcome = "ok"
        /\ jobs[k].kind = "scrape"
        /\ jobs[k].status = "done"
        /\ jobs[k].reqCancelledAtRun
        /\ jobs[k].outcome = "done"

Min(a, b) == IF a < b THEN a ELSE b

\* C6 as stated: a run in which identification returned at least one concept
\* dispatches exactly one discovery job, whatever happens in later stages.
C6_Original_JobWheneverConceptsIdentified ==
    \A r \in Req :
        (RunsPipeline(r) /\ req[r].pc = "returned"
           /\ Len(req[r].q.identified) >= 1) =>
            Cardinality(JobsFor("scrape", req[r].q.id)) = 1

\* C6 (amended): a run dispatches exactly one discovery job if identification
\* returned at least one concept and prerequisite-path resolution succeeded,
\* and none otherwise; the job is given the identified concepts and hands
\* the first min(n, 5) of them, in order, to the discovery engine; the later
\* stages do not matter and the outcome of the job never reaches the caller.
C6_JobAfterPathResolution ==
    /\ \A r \in Req : RunsPipeline(r) =>
         LET rq == req[r]
             pathDone == Len(rq.q.steps) >= 2 /\ rq.q.steps[2].success
         IN  /\ Cardinality(JobsFor("scrape", rq.q.id)) =
                  IF resourceScraper /\ Len(rq.q.identified) >= 1 /\ pathDone
                  THEN 1 ELSE 0
             /\ \A j \in JobsFor("scrape", rq.q.id) :
                  /\ jobs[j].conceptNames = rq.q.identified
                  /\ jobs[j].owner = rq.ctx
             /\ (rq.pc = "returned" /\ rq.err # <<>>) =>
                  \E k \in FatalStages : StepFailed(r, k)
    /\ \A j \in 1..Len(jobs) :
         (jobs[j].kind = "scrape" /\ jobs[j].status = "done") =>
            LET n == Len(jobs[j].conceptNames) IN
            /\ n >= 1
            /\ jobs[j].concepts = SubSeq(jobs[j].conceptNames, 1, Min(n, 5))

\* explanation generation failed, and the discovery job of the run handed
\* five of the six identified concepts to the engine and timed out
C6_Witness ==
    \E r \in Req :
        /\ req[r].pc = "returned"
        /\ StepFailed(r, 4)
        /\ Len(req[r].q.identified) = 6
        /\ \E j \in JobsFor("scrape", req[r].q.id) :
             /\ jobs[j].status = "done"
             /\ jobs[j].outcome = "timeout"
             /\ Len(jobs[j].concepts) = 5


\* request r is a SmartConceptQuery call that has returned
SmartReturned(r) == req[r].kind = "smart" /\ req[r].pc = "returned"

\* C7: SmartConceptQuery answers from a cached record only when its age is
\* strictly less than 30 days; a record found by the lookup that is 30 days
\* old or older is not returned and a fresh pipeline run is made.
C7_CacheOnlyIfYoungerThan30Days ==
    \A r \in Req : req[r].kind = "smart" =>
        LET rq == req[r] IN
        /\ rq.fromCache =>
             /\ rq.cachedId # 0
             /\ rq.cacheAge < 30
             /\ rq.result.qid = rq.cachedId
        /\ (rq.cachedId # 0 /\ rq.cacheAge >= 30) =>
             /\ ~rq.fromCache
             /\ RunsPipeline(r)
             /\ Head(StageCalls(r)) = "IdentifyConcepts"
             /\ rq.q.id # rq.cachedId
             /\ rq.result.qid # rq.cachedId
        /\ (rq.cachedId # 0 /\ rq.cacheAge < 30) => rq.fromCache

\* the lookup found a record exactly 30 days old and the call was answered
\* by a fresh run
C7_Witness ==
    \E r \in Req :
        /\ SmartReturned(r)
        /\ req[r].cachedId # 0
        /\ req[r].cacheAge = 30
        /\ ~req[r].fromCache
        /\ req[r].err = <<>>
        /\ req[r].result.present

\* the list a discovery job hands (or will hand) to the discovery engine
JobList(job) ==
    IF job.kind = "gather" THEN GatherList(job.conceptName, job.conceptNames)
    ELSE ScrapeList(job.conceptNames)

InList(c, list) == \E i \in 1..Len(list) : list[i] = c

\* the discovery jobs dispatched by the request with context ctx
DiscoveryJobsOf(ctx) ==
    {j \in 1..Len(jobs) :
        jobs[j].owner = ctx /\ jobs[j].kind \in {"scrape", "gather"}}

MatchRank(d, c) ==
    IF \E i \in 1..Len(d.identified) : d.identified[i] = c THEN 1
    ELSE IF \E i \in 1..Len(d.identified) :
                ToLower(d.identified[i]) = ToLower(c) THEN 2
    ELSE IF WordMatch(d.text, c) THEN 3
    ELSE 4

\* a record the cache may serve
Eligible(d) == d.success /\ d.explanation # <<>>

\* the record request r was answered from
CachedDoc(r) == CHOOSE d \in store : d.id = req[r].cachedId

ProcessQueryOutcome(rq, text, perr) ==
    LET sc == SelectSeq(rq.calls, LAMBDA c : c # "FindByConceptName")
        saves == JobsFor("save", rq.q.id)
    IN  /\ rq.q.text = text
        /\ sc = SubSeq(StageOrder, 1, Len(sc))
        /\ rq.llmReq.sent =>
             /\ rq.llmReq.query = text
             /\ rq.llmReq.path = rq.q.path
        /\ rq.pc = "returned" =>
             /\ rq.q.success =>
                  /\ rq.err = <<>>
                  /\ rq.result =
                       [present |-> TRUE, qid |-> rq.q.id,
                        concepts |-> rq.q.identified, path |-> rq.q.path,
                        explanation |-> rq.q.explanation,
                        context |-> rq.q.context]
             /\ ~rq.q.success =>
                  /\ rq.err = perr
                  /\ rq.result = NoResult
             /\ Cardinality(saves) = 1
             /\ \A j \in saves : jobs[j].q = rq.q /\ jobs[j].owner = rq.ctx
             /\ DocsWithId(rq.q.id) \subseteq {rq.q}

\* C11: a SmartConceptQuery(c) call that is not answered from the cache is a
\* ProcessQuery run on the prompt synthesized for c: after the lookups it
\* makes the stage calls of ProcessQuery in their order with the prompt as
\* question, returns the concepts, path, context and explanation of that run
\* (or its error, wrapped), and has the one Query of that run saved.
C11_MissBehavesAsProcessQueryOnPrompt ==
    \A r \in Req : RunsPipeline(r) =>
        LET rq == req[r]
            perr == Wrap("failed to process query", rq.q.errorMessage)
            k == Len(rq.calls) - Len(StageCalls(r))
        IN  /\ rq.kind = "process" => ProcessQueryOutcome(rq, rq.arg, perr)
            /\ rq.kind = "smart" =>
                 /\ ProcessQueryOutcome(
                      rq, buildConceptQueryPrompt(rq.arg),
                      Wrap("failed to process fresh concept query", perr))
                 /\ k \in 1..3
                 /\ \A i \in 1..Len(rq.calls) :
                      (rq.calls[i] = "FindByConceptName") <=> (i <= k)

\* a call for a concept without any cached record that was answered by a
\* successful fresh run whose Query is in the store
C11_Witness ==
    \E r \in Req :
        /\ SmartReturned(r)
        /\ ~req[r].fromCache
        /\ req[r].cachedId = 0
        /\ req[r].err = <<>>
        /\ req[r].result.explanation # <<>>
        /\ req[r].q.text = buildConceptQueryPrompt(req[r].arg)
        /\ DocsWithId(req[r].q.id) = {req[r].q}

\* C12: after any interleaving of discovery calls (concurrent calls for the
\* same concept and calls for different concepts that find the same URL
\* included) the collection never holds two documents with the same URL.
C12_Original_NoTwoRecordsSameURL ==
    \A d \in resources, e \in resources : d.url = e.url => d = e

\* the documents of the collection that belong to a concept identifier and
\* have one of the given resource types
StoredFor(conceptID, types) ==
    {d \in resources : d.concept_id = conceptID /\ d.resource_type \in types}

\* C13: after any interleaving of discovery calls (re-discovery of a concept
\* after its 24-hour window and concurrent calls for one concept included)
\* the collection holds, for every concept identifier, at most 6 resources,
\* at most 3 videos and at most 3 articles and tutorials together.
C13_Original_PerConceptCapsInStore ==
    \A c \in {d.concept_id : d \in resources} :
        /\ Cardinality(StoredFor(c, AllTypes)) <= maxPerConcept
        /\ Cardinality(StoredFor(c, {"video"})) <= maxVideos
        /\ Cardinality(StoredFor(c, {"article", "tutorial"}))
             <= maxArticlesTutorials

\* candidate lists handed to filterQualityResources, with scores on both
\* sides of the threshold (the adapters themselves score 0.5 or more)
FilterInputs ==
    { <<Resource("u1", sab, "video", 3, 0),
        Resource("u2", sab, "video", 4, 0)>>,
      <<Resource("u1", sab, "article", 0, 0),
        Resource("u2", sab, "reference", 9, 0),
        Resource("u3", sab, "tutorial", 3, 0)>>,
      <<Resource("u1", sab, "reference", 3, 0)>> }

Elements(list) == {list[i] : i \in 1..Len(list)}

\* the documents written since the call of scrapeResourcesForConcept began
WrittenByCall == IF fan.pc = "idle" THEN {} ELSE resources \ fan.before

\* C14: no resource with a quality score below 0.4 is written to the
\* collection: what a call hands to the bulk write is the output of the
\* quality filter, every document it writes is an element of that output,
\* and the filter keeps no candidate that scores below 0.4 (and keeps only
\* candidates).
C14_NoResourceBelowThresholdWritten ==
    /\ \A d \in resources : d.quality_score >= minQuality
    /\ fan.pc = "storing" =>
         fan.quality =
           filterQualityResources(deduplicateResources(fan.allResources))
    /\ \A d \in WrittenByCall : Fields(d) \in Elements(fan.quality)
    /\ \A r \in Elements(fan.quality) : r.quality_score >= minQuality
    /\ \A list \in FilterInputs :
         /\ Elements(filterQualityResources(list)) \subseteq Elements(list)
         /\ \A r \in Elements(list) :
              r \in Elements(filterQualityResources(list))
                <=> r.quality_score >= minQuality

\* a call wrote its filtered resources, the lowest of which scores 0.5, and
\* the filter drops a candidate of score 0.3 next to one of score 0.4
C14_Witness ==
    /\ fan.pc = "done"
    /\ fan.err = NoError
    /\ WrittenByCall # {}
    /\ \E d \in WrittenByCall : d.quality_score = 5
    /\ \E list \in FilterInputs :
         /\ \E r \in Elements(list) : r.quality_score = minQuality - 1
         /\ \E r \in Elements(filterQualityResources(list)) :
              r.quality_score = minQuality

\* the call has passed the barrier g.Wait()
FanJoined ==
    \/ fan.pc = "storing"
    \/ fan.pc = "done" /\ \E a \in Adapters : fan.adapters[a] # "idle"

\* what the adapters that have ended returned, in the order they ended
ReturnedInOrder == Concat([i \in 1..Len(fan.log) |-> fan.returned[fan.log[i]]])

\* C15: in the fan-out of one concept the failure of any of the four
\* adapters neither cancels the group context of the others nor fails the
\* concept (only the bulk write can); deduplication, filtering and the bulk
\* write begin only when all four adapters have ended, and their input is
\* exactly what the adapters that succeeded returned.
C15_AdapterFailuresIsolatedBehindBarrier ==
    /\ ~fan.groupErr
    /\ fan.err \in {NoError, <<"bulk write failed">>}
    /\ fan.allResources = ReturnedInOrder
    /\ \A a \in Adapters :
         /\ fan.adapters[a] = "failed" => fan.returned[a] = <<>>
         /\ fan.adapters[a] = "ok" =>
              fan.returned[a] \in AdapterResults(a, fan.conceptID, clock)
         /\ fan.adapters[a] \in {"waiting", "fetching"} =>
              /\ fan.returned[a] = <<>>
              /\ \A i \in 1..Len(fan.log) : fan.log[i] # a
    /\ (FanJoined \/ WrittenByCall # {}) =>
         /\ \A a \in Adapters : fan.adapters[a] \in {"ok", "failed"}
         /\ fan.quality =
              filterQualityResources(deduplicateResources(ReturnedInOrder))
         /\ fan.err = NoError =>
              resources = IF fan.pc = "done"
                          THEN UpsertAll(fan.before, fan.quality)
                          ELSE fan.before

\* three adapters failed, the last one to end succeeded after them, and
\* what it returned was filtered and stored
C15_Witness ==
    /\ fan.pc = "done"
    /\ fan.err = NoError
    /\ Len(fan.log) = 4
    /\ fan.adapters[fan.log[4]] = "ok"
    /\ \A i \in 1..3 : fan.adapters[fan.log[i]] = "failed"
    /\ fan.allResources = fan.returned[fan.log[4]]
    /\ fan.allResources # <<>>
    /\ WrittenByCall # {}

URLs(list) == {list[i].url : i \in 1..Len(list)}

\* the call has ended without an error and a is the one adapter that
\* succeeded in it
OnlyAdapterSucceeded(a) ==
    /\ fan.pc = "done"
    /\ fan.err = NoError
    /\ fan.adapters[a] = "ok"
    /\ \A b \in Adapters \ {a} : fan.adapters[b] = "failed"

\* searches that leave searchYouTube with n raw hits on k distinct URLs
RawHits(pages, n, k) ==
    LET raw == Truncate(Concat(pages), youTubeLimit)
    IN  Len(raw) = n /\ Cardinality(URLs(raw)) = k

\* the best n of a list: its first n entries after the sort by score
Best(list, n) == Truncate(SortByQuality(list), n)

\* C16 as stated: when a single adapter succeeds, the resources persisted
\* for the concept are the unique URLs among its hits (4 of them for 5 raw
\* hits on 4 distinct URLs).
C16_Original_AllUniqueHitsPersisted ==
    \A a \in Adapters : OnlyAdapterSucceeded(a) =>
        {d.url : d \in WrittenByCall} = URLs(fan.returned[a])

\* C16 (amended): when a single adapter succeeds and the bulk write does,
\* the resources persisted are the unique URLs among its hits that pass the
\* quality filter, each once: all of them when they are at most three, and
\* the three best-scored when YouTube is left with 5 raw hits on 4 distinct
\* URLs (the filter keeps at most 3 videos per concept).
C16_UniqueHitsPersistedUpToFilterCaps ==
    \A a \in Adapters : OnlyAdapterSucceeded(a) =>
        LET unique == deduplicateResources(fan.returned[a])
        IN  /\ fan.quality = filterQualityResources(unique)
            /\ Cardinality(URLs(fan.quality)) = Len(fan.quality)
            /\ {Fields(d) : d \in WrittenByCall} = Elements(fan.quality)
            /\ Cardinality(WrittenByCall) = Len(fan.quality)
            /\ Len(unique) <= maxVideos => URLs(fan.quality) = URLs(unique)
            /\ \A pages \in YouTubePages :
                 /\ a = "youtube"
                 /\ RawHits(pages, 5, 4)
                 /\ fan.returned[a] =
                      searchYouTube(pages, fan.conceptID, clock)
                 => /\ Len(unique) = 4
                    /\ Len(fan.quality) = 3
                    /\ fan.quality = Best(unique, 3)

\* YouTube alone succeeded with 5 raw hits on 4 distinct URLs, and three
\* documents were written
C16_Witness ==
    /\ OnlyAdapterSucceeded("youtube")
    /\ \E pages \in YouTubePages :
         /\ RawHits(pages, 5, 4)
         /\ fan.returned["youtube"] =
              searchYouTube(pages, fan.conceptID, clock)
    /\ Cardinality(URLs(fan.returned["youtube"])) = 4
    /\ Cardinality(WrittenByCall) = 3

\* when the call began, the collection held a resource of the concept's
\* identifier that was scraped at most 24 hours earlier
HeldRecentResource ==
    \E d \in fan.before :
        /\ d.concept_id = generateConceptID(fan.conceptName)
        /\ clock - d.scraped_at <= recentWindowHours

\* the freshness check of the call has returned
FanChecked == fan.pc \notin {"idle", "checking"}

\* the concept was skipped entirely
FanSkipped ==
    /\ fan.pc = "done"
    /\ fan.err = NoError
    /\ \A a \in Adapters : fan.adapters[a] = "idle"
    /\ fan.log = <<>>
    /\ fan.waits = 0
    /\ resources = fan.before

\* C18 as stated: a concept of which the collection holds a resource
\* scraped within the last 24 hours is skipped entirely.
C18_Original_RecentConceptAlwaysSkipped ==
    FanChecked /\ HeldRecentResource => FanSkipped

\* C18 (amended): a concept of which the collection holds a resource scraped
\* within the last 24 hours (24 hours included) is skipped entirely when the
\* freshness lookup succeeds: no adapter is invoked, no limiter token is
\* taken and the collection stays as it was; a concept is skipped in no
\* other case, and when the lookup fails the concept is processed as if
\* nothing were stored for it.
C18_RecentConceptSkippedIfLookupSucceeds ==
    FanChecked =>
        /\ fan.lookup = "ok" /\ HeldRecentResource => FanSkipped
        /\ FanSkipped => fan.lookup = "ok" /\ HeldRecentResource
        /\ fan.lookup = "error" \/ ~HeldRecentResource =>
             \A a \in Adapters : fan.adapters[a] # "idle"
        /\ fan.waits <= Cardinality({a \in Adapters :
                                       fan.adapters[a] \notin
                                         {"idle", "waiting"}})

\* a concept whose resources were scraped exactly 24 hours ago was skipped
C18_Witness ==
    /\ FanSkipped
    /\ fan.lookup = "ok"
    /\ fan.before # {}
    /\ \A d \in fan.before :
         /\ d.concept_id = fan.conceptID
         /\ clock - d.scraped_at = recentWindowHours

\* the number of the batch that holds position k (batches count from 0)
BatchOf(k) == (k - 1) \div batchSize

BatchEnded(k) == batch.status[k] \in {"ok", "failed"}

\* the batches begun so far are consecutive slices of the concept list, of
\* three names each except for a shorter last one
ConsecutiveBatches ==
    /\ Concat(batch.batches) =
         SubSeq(batch.conceptNames, 1, Len(Concat(batch.batches)))
    /\ \A j \in 1..Len(batch.batches) :
         /\ Len(batch.batches[j]) \in 1..batchSize
         /\ Len(batch.batches[j]) < batchSize =>
              /\ j = Len(batch.batches)
              /\ Concat(batch.batches) = batch.conceptNames

\* no concept of a batch has been spawned while a concept of an earlier
\* batch has not ended
BatchesSequential ==
    \A k \in 1..Len(batch.conceptNames), l \in 1..Len(batch.conceptNames) :
        batch.status[k] # "pending" /\ BatchOf(l) < BatchOf(k)
          => BatchEnded(l)

\* a job that has ended has processed every concept of every batch
EndsAfterLastBatch ==
    batch.pc = "done" =>
        /\ \A k \in 1..Len(batch.conceptNames) : BatchEnded(k)
        /\ Concat(batch.batches) = batch.conceptNames

\* C17: a discovery job cuts its concept list into consecutive batches of at
\* most 3 and processes them strictly one after the other: no concept of a
\* later batch starts before every concept of the earlier batches has
\* ended; a failed batch does not keep the job from processing every
\* later batch, and the job ends after the last one.
C17_BatchesSequentialAndAllProcessed ==
    /\ [](ConsecutiveBatches /\ BatchesSequential /\ EndsAfterLastBatch)
    /\ (batch.pc # "idle") ~> (batch.pc = "done")

\* a job of five concepts has ended after its first batch failed, with the
\* two concepts of the second batch processed
C17_Witness ==
    /\ batch.pc = "done"
    /\ Len(batch.conceptNames) = 5
    /\ Len(batch.batches) = 2
    /\ \E k \in 1..3 : batch.status[k] = "failed"
    /\ batch.status[4] = "ok"
    /\ batch.status[5] = "ok"

\* how often the resource r occurs in list
Occurrences(list, r) == Cardinality({i \in 1..Len(list) : list[i] = r})

\* what the lookups that succeeded returned, in the order of the names
FetchedResources ==
    Concat([i \in 1..Len(reader.fetched) |->
              IF reader.fetched[i][1] = "ok" THEN reader.fetched[i][2]
              ELSE <<>>])

\* C19: for every limit >= 0 and every list of names GetResourcesForConcepts
\* returns, without an error, at most limit resources in non-increasing
\* order of score, which are the limit best-scored of the resources fetched
\* for the names; a name whose lookup fails is passed over without failing
\* the call.
C19_BestResourcesUpToLimit ==
    /\ reader.allResources = FetchedResources
    /\ reader.pc = "returned" =>
         LET res == reader.result
             all == FetchedResources
         IN  /\ reader.err = NoError
             /\ Len(reader.fetched) = Len(reader.conceptNames)
             /\ Len(res) <= reader.limit
             /\ Len(res) = Min(reader.limit, Len(all))
             /\ \A i \in 1..(Len(res) - 1) :
                  res[i].quality_score >= res[i + 1].quality_score
             /\ \A r \in Elements(res) :
                  Occurrences(res, r) <= Occurrences(all, r)
             /\ \A r \in Elements(all) :
                  Occurrences(res, r) < Occurrences(all, r) =>
                    \A i \in 1..Len(res) :
                       r.quality_score <= res[i].quality_score

\* a call for three names returned the two best of the resources of two of
\* them although the lookup of the other one failed, leaving out fetched
\* resources of lower score
C19_Witness ==
    /\ reader.pc = "returned"
    /\ reader.limit = 2
    /\ Len(reader.conceptNames) = 3
    /\ \E i \in 1..3 : reader.fetched[i] = <<"failed">>
    /\ Len(reader.result) = 2
    /\ Len(FetchedResources) > 2
    /\ Cardinality({r.concept_id : r \in Elements(reader.result)}) = 2

\* no name of the list matches a concept of the graph
NoNameMatches(names) == \A i \in 1..Len(names) : FindConceptID(names[i]) = {}

\* C20: prerequisite-path resolution returns an empty list and no error
\* whenever none of the given names matches a concept of the graph; a name
\* that matches nothing, or whose look-up fails, is passed over without
\* failing the resolution (the names that matched alone make the targets of
\* the path query); an empty input list is answered with an empty list
\* without any call to the graph.
C20_UnmatchedNamesSkippedNeverAnError ==
    LET rs == resolver
        found == {i \in 1..Len(rs.lookups) : rs.lookups[i] = "found"}
    IN  /\ rs.pc = "returned" /\ NoNameMatches(rs.targetConcepts) =>
             rs.result = <<>> /\ rs.err = NoError
        /\ rs.pc = "returned" /\ rs.targetConcepts = <<>> =>
             rs.result = <<>> /\ rs.err = NoError /\ rs.calls = <<>>
        /\ rs.pc = "returned" /\ found = {} =>
             /\ rs.result = <<>> /\ rs.err = NoError
             /\ \A i \in 1..Len(rs.calls) : rs.calls[i] = "FindConceptID"
        /\ rs.pc \in {"path", "returned"} =>
             /\ Len(rs.lookups) = Len(rs.targetConcepts)
             /\ Len(rs.targetIDs) = Cardinality(found)
             /\ \A i \in found :
                  rs.targetIDs[Cardinality({j \in found : j <= i})]
                    \in FindConceptID(rs.targetConcepts[i])
        /\ rs.err # NoError =>
             /\ rs.err = <<"failed to find prerequisite path">>
             /\ found # {}
             /\ rs.calls[Len(rs.calls)] = "FindPath"

\* a list of three names none of which is in the graph, one look-up having
\* failed and one having matched nothing, was answered with an empty list
\* and no error after three look-ups and no path query
C20_Witness ==
    /\ resolver.pc = "returned"
    /\ resolver.err = NoError
    /\ resolver.result = <<>>
    /\ Len(resolver.targetConcepts) = 3
    /\ NoNameMatches(resolver.targetConcepts)
    /\ \E i \in 1..3 : resolver.lookups[i] = "error"
    /\ \E i \in 1..3 : resolver.lookups[i] = "none"
    /\ resolver.calls = <<"FindConceptID", "FindConceptID", "FindConceptID">>

\* C21 (as stated): within one batch a concept that fails does not cancel
\* its siblings: no concept of the batch begins its search or calls
\* storeResources under a context of the group that is already cancelled.
C21_Original_FailedConceptDoesNotCancelSiblings ==
    batch.observedCancel = {}

\* C25: the goroutines of a batch that have been started and have not
\* returned are never more than MaxConcurrentRequests and never more than
\* the batch size, and g.Go starts one only while there are fewer than
\* MaxConcurrentRequests of them.
C25_InFlightBoundedByLimit ==
    /\ [](/\ Cardinality(InFlight(batch)) <= batch.limit
          /\ Cardinality(InFlight(batch)) <= batchSize)
    /\ [][\A k \in 1..Len(batch.conceptNames) :
             k \notin InFlight(batch) /\ k \in InFlight(batch)'
                => Cardinality(InFlight(batch)) < batch.limit]_vars

\* with a limit of two, two concepts of a batch of three are in flight and
\* the third waits for a slot
C25_Witness ==
    /\ batch.pc = "batch"
    /\ batch.limit = 2
    /\ Cardinality(InFlight(batch)) = 2
    /\ \E k \in 1..Len(batch.conceptNames) : batch.status[k] = "queued"

\* C22 (as stated): every HTTP fetch of an adapter is preceded by its own
\* wait on the limiter, so the HTTP requests issued are never more than the
\* tokens granted.
C22_Original_RequestsNeverExceedTokens ==
    limiter.requests <= limiter.tokens

\* both calls have ended after they searched and found the same resources
\* for the same concept
BothFoundTheSame ==
    /\ \A w \in Writers :
          writers[w].pc = "done" /\ writers[w].quality # <<>>
    /\ writers["w1"].quality = writers["w2"].quality

\* the collection holds the resources of list as one call leaves them: for
\* each of them one document, with its fields, and no other of its URL
StoredAsByOneCall(list) ==
    \A i \in 1..Len(list) :
        \E d \in resources :
            /\ Fields(d) = list[i]
            /\ \A e \in resources : e.url = list[i].url => e = d

\* C23 (as stated): two concurrent discovery calls for one concept can both
\* pass the 24-hour check and both search; when both find the same
\* resources the collection ends as if only one of them had run.
C23_Original_DuplicateWorkLeavesStoreAsOneCall ==
    BothFoundTheSame => StoredAsByOneCall(writers["w1"].quality)

\* call c ran or runs the pipeline of ProcessQuery
CallerRunsPipeline(c) ==
    callers[c].pc \notin {"idle", "lookup"} /\ ~callers[c].fromCache

\* C24: concurrent SmartConceptQuery calls that miss the cache are not
\* coalesced: each runs the pipeline on a Query of its own, returns the
\* result of that Query, has that Query saved by a job of its own, and the
\* saves that succeed each insert a record, so that two calls for one
\* concept whose saves succeeded leave two records.
C24_ConcurrentMissesRunAndSaveSeparately ==
    /\ \A c \in Callers : CallerRunsPipeline(c) =>
         LET cl == callers[c]
         IN  /\ cl.q.id # 0
             /\ cl.q.text = buildConceptQueryPrompt(cl.arg)
             /\ \A d \in Callers \ {c} :
                   CallerRunsPipeline(d) => callers[d].q.id # cl.q.id
             /\ cl.pc # "identify" => Len(cl.q.steps) >= 1
             /\ cl.result.present => cl.result.qid = cl.q.id
             /\ (cl.pc = "returned") <=> (cl.save # "none")
             /\ cl.save = "ok" => cl.q \in store
             /\ cl.save # "ok" => \A doc \in store : doc.id # cl.q.id
    /\ (/\ \A c \in Callers :
              CallerRunsPipeline(c) /\ callers[c].save = "ok"
        /\ callers["c1"].arg = callers["c2"].arg)
          => Cardinality(
               {doc \in store :
                  doc.text = buildConceptQueryPrompt(callers["c1"].arg)})
               = 2

\* two calls for the concept "ab" both missed the cache, both ran all four
\* stages with success and both their records are in the store
C24_Witness ==
    /\ \A c \in Callers :
          /\ CallerRunsPipeline(c)
          /\ callers[c].arg = sab
          /\ callers[c].cachedId = 0
          /\ callers[c].err = <<>>
          /\ Len(callers[c].q.steps) = 4
          /\ callers[c].save = "ok"
    /\ Cardinality(store) = 2

\* the error text err ends with the text of its cause
EndsWith(err, cause) ==
    /\ Len(cause) <= Len(err)
    /\ SubSeq(err, Len(err) - Len(cause) + 1, Len(err)) = cause

\* the fatal stage i of request r returned no error: a later stage was
\* called, or the run returned without an error after it
FatalStageSucceeded(r, i) ==
    \/ i < Len(StageCalls(r))
    \/ /\ i = Len(StageCalls(r))
       /\ req[r].pc = "returned"
       /\ req[r].err = <<>>

GatherCandidates(c) == <<callers[c].arg>> \o callers[c].result.concepts

\* the key under which two names count as the same concept
NameKey(name) == TrimSpace(ToLower(name))

\* the positions of a list whose entry is not blank and is the first with
\* its key
FirstOfKey(all) ==
    {i \in 1..Len(all) :
        /\ NameKey(all[i]) # <<>>
        /\ \A j \in 1..(i - 1) : NameKey(all[j]) # NameKey(all[i])}

\* the n-th position of a set of positions
NthOf(S, n) == CHOOSE i \in S : Cardinality({j \in S : j < i}) = n - 1

\* the refresh job of call c has handed its list to the engine
GatherHanded(c) == callers[c].gather = "done"

\* C27 (as stated): on a cache hit the list handed to the refresh job
\* starts with the requested concept.
C27_Original_ListStartsWithRequestedConcept ==
    \A c \in Callers : GatherHanded(c) =>
        /\ callers[c].handed # <<>>
        /\ callers[c].handed[1] = callers[c].arg

\* C27: on a cache hit the list handed to the refresh job consists of the
\* requested concept followed by the identified concepts of the cached
\* record, in this order, without the blank entries and without the
\* entries whose trimmed lower-case form occurred before, cut to its first
\* 3 entries; it starts with the requested concept when that is not blank.
C27_RefreshListDedupedInOrderCutToThree ==
    \A c \in Callers : GatherHanded(c) =>
        LET all == GatherCandidates(c)
            list == callers[c].handed
            kept == FirstOfKey(all)
        IN  /\ callers[c].fromCache
            /\ Len(list) = Min(maxConceptsGather, Cardinality(kept))
            /\ \A n \in 1..Len(list) : list[n] = all[NthOf(kept, n)]
            /\ \A n \in 1..Len(list) : NameKey(list[n]) # <<>>
            /\ \A n \in 1..Len(list), m \in 1..Len(list) :
                  NameKey(list[n]) = NameKey(list[m]) => n = m
            /\ NameKey(callers[c].arg) # <<>> => list[1] = callers[c].arg

\* the refresh list of a call for " ab" answered with a record of six
\* identified concepts, the first of them "ab": three entries, the
\* requested name first and "ab" removed as its duplicate
C27_Witness ==
    \E c \in Callers :
        /\ GatherHanded(c)
        /\ callers[c].arg = spab
        /\ Len(callers[c].result.concepts) = 6
        /\ callers[c].result.concepts[1] = sab
        /\ callers[c].handed = <<spab, scd, <<"e">>>>

\* C28 (as stated): the identifier under which GetResourcesForConcepts
\* reads the resources of a name is the identifier under which the
\* discovery engine stores them, so that what a lookup without error
\* returns for a name are the resources stored for that name.
C28_Original_ReadsUnderTheIdentifierOfTheEngine ==
    \A i \in 1..Len(reader.fetched) :
        LET conceptName == reader.conceptNames[i]
        IN  /\ queryServiceGenerateConceptID(conceptName)
                 = generateConceptID(conceptName)
            /\ reader.fetched[i][1] = "ok" =>
                 reader.fetched[i][2] \in
                     GetResourcesForConcept(generateConceptID(conceptName),
                                            reader.limit)

\* call c has been answered or is in its fresh run
CallerPastLookup(c) == callers[c].pc \notin {"idle", "lookup"}

\* call d missed the cache, its fresh run succeeded and the save of its
\* record had succeeded when call c was made, for the same concept and less
\* than 30 days after the timestamp of the record
SavedFreshRunBefore(d, c) ==
    /\ d \in callers[c].after
    /\ CallerRunsPipeline(d)
    /\ callers[d].q.success
    /\ callers[d].arg = callers[c].arg
    /\ callers[c].calledAt - callers[d].q.timestamp < MaxCacheAgeDays

\* call c is answered from a record that is the one of call d or a more
\* recent eligible one, without a pipeline of its own
AnsweredFromCacheSince(c, d) ==
    /\ callers[c].fromCache
    /\ callers[c].q = NoQuery
    /\ \E doc \in store :
         /\ doc.id = callers[c].cachedId
         /\ Eligible(doc)
         /\ doc.timestamp >= callers[d].q.timestamp

\* the name begins and ends with a letter or a digit
WordAtBothEnds(name) ==
    /\ name # <<>>
    /\ IsWordCh(name[1])
    /\ IsWordCh(name[Len(name)])

LookupCalls(r) ==
    SelectSeq(req[r].calls, LAMBDA call : call = "FindByConceptName")

\* request r has begun the fresh run of SmartConceptQuery
InFreshRun(rq) ==
    /\ rq.kind = "smart"
    /\ rq.pc \notin {"idle", "lookup"}
    /\ ~rq.fromCache

\* C30: an error of the store during the cache lookup is never returned by
\* SmartConceptQuery: an error it returns is the error of a failed stage of
\* its fresh run; a lookup that fails or finds nothing is followed by the
\* lookup with the next search term, and after the last term by the fresh
\* run on the prompt; the fresh run starts earlier only when a lookup
\* returned a record.
C30_LookupErrorsEndInNextStrategyOrFreshRun ==
    /\ [](\A r \in Req : req[r].kind = "smart" =>
            LET rq == req[r] IN
            /\ rq.pc = "lookup" => rq.err = <<>>
            /\ rq.fromCache => rq.err = <<>>
            /\ rq.err # <<>> =>
                 /\ rq.pc = "returned"
                 /\ \E i \in FatalStages :
                      /\ i = Len(rq.q.steps)
                      /\ ~rq.q.steps[i].success
                      /\ EndsWith(rq.err, rq.q.steps[i].error))
    /\ [][\A r \in Req :
            (req[r].pc = "lookup" /\ req'[r] # req[r]) =>
              LET rq == req[r]
                  nx == req'[r]
                  last == Len(SearchStrategies(rq.arg))
                  found ==
                    FindByConceptName(SearchStrategies(rq.arg)[rq.term])
              IN  /\ nx.err = <<>>
                  /\ nx.pc = "lookup" =>
                       /\ rq.term < last
                       /\ nx.term = rq.term + 1
                       /\ \E outcome \in {"err", "none"} :
                            nx.lookups = Append(rq.lookups, outcome)
                       /\ nx.calls = Append(rq.calls, "FindByConceptName")
                  /\ nx.pc # "lookup" =>
                       \/ /\ nx.fromCache
                          /\ nx.pc = "returned"
                       \/ /\ InFreshRun(nx)
                          /\ nx.q.text = buildConceptQueryPrompt(rq.arg)
                          /\ nx.q.steps = <<>>
                          /\ nx.calls = Append(rq.calls, "IdentifyConcepts")
                          /\ rq.term < last => nx.cachedId # 0
                  /\ rq.term = last => nx.pc # "lookup"]_vars

\* a fresh run begun after all three lookups failed, on a store that holds
\* a record the first lookup would have returned
C30_Witness ==
    \E r \in Req :
        /\ InFreshRun(req[r])
        /\ Len(LookupCalls(r)) = 3
        /\ req[r].cachedId = 0
        /\ FindByConceptName(SearchStrategies(req[r].arg)[1]) # {}
        /\ req[r].q.text = buildConceptQueryPrompt(req[r].arg)

====
